---- MODULE Spec2Model ----
(***************************************************************************)
(* splitzies-backend: receipts, items, participants (receipt users),       *)
(* item->participant assignments and the equal-split allocator.            *)
(*                                                                         *)
(* Monetary values (Go float64) are carried as integers in thousandths of  *)
(* a major unit ("milli"), so 10.00 is 10000 and one cent is 10.  The      *)
(* allocator's conversion to cents, math.Round(price * 100), is therefore  *)
(* a real rounding and not the identity.                                   *)
(*                                                                         *)
(* A Go pointer to float64 is a sequence of length 0 (nil) or 1.           *)
(* An error is the sequence of the words of its message, so that           *)
(* strings.Contains(err.Error(), "not found") is computed, not assumed.    *)
(***************************************************************************)
EXTENDS Integers, Sequences, FiniteSets, TLC

(***************************************************************************)
(* Bounds of the model.                                                    *)
(***************************************************************************)
MaxReceipts == 2
MaxUsers == 2
MaxBodyItems == 2
MaxBatch == 2
MaxSplitUsers == 4
MaxSplitCents == 7
MaxQuantity == 3
MaxParsed == 1
MaxCallers == 2
MaxAssignments == 3
MaxMoneyUnits == 2

VARIABLES
    receipts,            \* table receipts: set of committed receipt ids
    receipt_columns,     \* table receipts: image_url, ocr_text, tax and tip of each row
    receipt_items,       \* table receipt_items: set of rows
    receipt_users,       \* table receipt_users: set of rows
    receipt_user_items,  \* table receipt_user_items: set of rows
    tx,                  \* the SaveReceipt transaction in progress
    req,                 \* the request or arguments under test (fixed by Init)
    resp,                \* the last response written by a handler
    inflight             \* the concurrent requests in progress, each at its next statement

vars == <<receipts, receipt_columns, receipt_items, receipt_users, receipt_user_items, tx, req,
          resp, inflight>>

(***************************************************************************)
(* Generic helpers.                                                        *)
(***************************************************************************)
Nil == <<>>
Some(v) == <<v>>

Max(S) == CHOOSE x \in S : \A y \in S : y <= x
Min(S) == CHOOSE x \in S : \A y \in S : x <= y

RECURSIVE SumSeq(_)
SumSeq(s) == IF s = <<>> THEN 0 ELSE Head(s) + SumSeq(Tail(s))

\* All sequences over S of length lo..hi
SeqsOf(S, lo, hi) == UNION {[1..n -> S] : n \in lo..hi}

\* strings.Contains on word sequences
Contains(s, sub) ==
    \E i \in 1..(Len(s) - Len(sub) + 1) : SubSeq(s, i, i + Len(sub) - 1) = sub

\* ulid.Make(): a fresh identifier, sorting after every identifier in use
NewULID(used) == 1 + Max(used \cup {0})

\* CURRENT_TIMESTAMP of an INSERT: later than every row already in the table
CURRENT_TIMESTAMP(rows) == 1 + Max({r.created_at : r \in rows} \cup {0})

\* ORDER BY created_at ASC
RECURSIVE OrderByCreatedAt(_)
OrderByCreatedAt(rows) ==
    IF rows = {} THEN <<>>
    ELSE LET first == CHOOSE r \in rows : \A q \in rows : r.created_at <= q.created_at
         IN  <<first>> \o OrderByCreatedAt(rows \ {first})

\* ORDER BY id ASC
RECURSIVE OrderById(_)
OrderById(rows) ==
    IF rows = {} THEN <<>>
    ELSE LET first == CHOOSE r \in rows : \A q \in rows : r.id <= q.id
         IN  <<first>> \o OrderById(rows \ {first})

(***************************************************************************)
(* Error messages (fmt.Errorf texts) and driver errors.                    *)
(***************************************************************************)
NotFoundWords == <<"not", "found">>
NoRowsWords == <<"no", "rows">>
ForeignKeyWords == <<"foreign", "key">>

PgxNoRows == <<"no", "rows", "in", "result", "set">>
PgxScanNull == <<"cannot", "scan", "NULL", "into", "*string">>
PgForeignKeyViolation == <<"violates", "foreign", "key", "constraint">>
PgFailure == <<"connection", "failure">>

ErrReceiptNotFound == <<"receipt", "not", "found">>
ErrUserOrItemNotFound == <<"receipt", "user", "or", "item", "not", "found">>
ErrSameReceipt == <<"user", "and", "item", "must", "belong", "to", "the", "same", "receipt">>
ErrVerify(cause) == <<"failed", "to", "verify", "user", "and", "item:">> \o cause
ErrGetData(cause) == <<"failed", "to", "get", "receipt", "user", "item", "data:">> \o cause
ErrInsertUser(cause) == <<"failed", "to", "insert", "receipt", "user:">> \o cause

\* the handlers' mapping of a persistence error to a status
StatusOfError(err) == IF Contains(err, NotFoundWords) THEN 404 ELSE 500

(***************************************************************************)
(* The equal-split allocator.                                              *)
(***************************************************************************)
\* math.Round(x * 100) for x in milli: half away from zero
RoundToCents(milli) ==
    IF milli >= 0 THEN (milli + 5) \div 10 ELSE 0 - ((5 - milli) \div 10)

\* Go integer division: truncation toward zero
GoDiv(a, b) == IF a >= 0 THEN a \div b ELSE 0 - ((0 - a) \div b)

\* float64(cents) / 100, in milli
CentsToMajor(cents) == cents * 10

\* itemPrice[id]: the last item with that ID wins, a missing key reads 0
ItemPrice(items, id) ==
    LET idx == {k \in 1..Len(items) : items[k].id = id}
    IN  IF idx = {} THEN 0 ELSE items[Max(idx)].total_price

\* itemUserOrder[itemID]: user ids in the order of the assignments
RECURSIVE ItemUserOrder(_, _)
ItemUserOrder(assignments, itemID) ==
    IF assignments = <<>> THEN <<>>
    ELSE LET a == Head(assignments)
         IN  (IF a.receipt_item_id = itemID THEN <<a.receipt_user_id>> ELSE <<>>)
             \o ItemUserOrder(Tail(assignments), itemID)

\* the remainder loop's `if i < remainder`, for the Go index i (from 0)
GetsExtraCent(i, remainder) == i < remainder

\* cents of the i-th user of an item split among n
\* (a variant that gives everyone the base share and drops the remainder)
ShareCentsWithoutRemainder(totalCents, n, i) == GoDiv(totalCents, n)

ShareCents(totalCents, n, i) ==
    LET baseCents == GoDiv(totalCents, n)
        remainder == totalCents - baseCents * n
    IN  IF GetsExtraCent(i, remainder) THEN baseCents + 1 ELSE baseCents

\* amountByUserItem[userID + ":" + itemID]; a later write of a key overwrites
AmountByUserItem(items, assignments) ==
    LET keys == {<<assignments[k].receipt_user_id, assignments[k].receipt_item_id>> :
                    k \in 1..Len(assignments)}
    IN  [key \in keys |->
            LET userIDs == ItemUserOrder(assignments, key[2])
                n == Len(userIDs)
                totalCents == RoundToCents(ItemPrice(items, key[2]))
                i == Max({k \in 1..n : userIDs[k] = key[1]}) - 1
            IN  CentsToMajor(ShareCents(totalCents, n, i))]

\* userTotal[userID] += amountByUserItem[key], once per assignment
UserTotal(assignments, amounts) ==
    LET userIDs == {assignments[k].receipt_user_id : k \in 1..Len(assignments)}
    IN  [u \in userIDs |->
            SumSeq([k \in 1..Len(assignments) |->
                IF assignments[k].receipt_user_id = u
                THEN amounts[<<u, assignments[k].receipt_item_id>>]
                ELSE 0])]

\* (a variant that charges an assignment its custom amount when it has one)
ComputeBillSplitHonouringCustom(items, assignments) ==
    LET equal == AmountByUserItem(items, assignments)
        amounts == [key \in DOMAIN equal |->
                       LET k == Max({j \in 1..Len(assignments) :
                                       /\ assignments[j].receipt_user_id = key[1]
                                       /\ assignments[j].receipt_item_id = key[2]})
                       IN  IF assignments[k].amount_owed = Nil THEN equal[key]
                           ELSE assignments[k].amount_owed[1]]
    IN  [AmountByUserItem |-> amounts,
         UserTotal |-> UserTotal(assignments, amounts)]

ComputeBillSplit(items, assignments) ==
    LET amounts == AmountByUserItem(items, assignments)
    IN  [AmountByUserItem |-> amounts,
         UserTotal |-> UserTotal(assignments, amounts)]

(***************************************************************************)
(* Persistence: participants and assignments.                              *)
(***************************************************************************)
\* (SELECT receipt_id FROM receipt_users WHERE id = $1): NULL when no row
UserReceiptID(receiptUserID) ==
    LET rows == {u \in receipt_users : u.id = receiptUserID}
    IN  IF rows = {} THEN Nil ELSE Some((CHOOSE u \in rows : TRUE).receipt_id)

\* (SELECT receipt_id FROM receipt_items WHERE id = $2): NULL when no row
ItemReceiptID(receiptItemID) ==
    LET rows == {i \in receipt_items : i.id = receiptItemID}
    IN  IF rows = {} THEN Nil ELSE Some((CHOOSE i \in rows : TRUE).receipt_id)

\* The verification query of AssignItemToUser.  The SELECT of two scalar
\* subqueries always returns one row; a NULL column fails the Scan into a Go
\* string, and that error does not hold the words "no rows".
\* (VerifyExistenceOnly is a variant without the comparison of the two ids.)
VerifyExistenceOnly(receiptUserID, receiptItemID) ==
    IF UserReceiptID(receiptUserID) = Nil \/ ItemReceiptID(receiptItemID) = Nil
    THEN ErrVerify(PgxScanNull)
    ELSE Nil

VerifyUserAndItem(receiptUserID, receiptItemID) ==
    LET userReceiptID == UserReceiptID(receiptUserID)
        itemReceiptID == ItemReceiptID(receiptItemID)
    IN  IF userReceiptID = Nil \/ itemReceiptID = Nil
        THEN IF Contains(PgxScanNull, NoRowsWords)
             THEN ErrUserOrItemNotFound
             ELSE ErrVerify(PgxScanNull)
        ELSE IF userReceiptID # itemReceiptID
             THEN ErrSameReceipt
             ELSE Nil

\* INSERT ... ON CONFLICT (receipt_user_id, receipt_item_id)
\*            DO UPDATE SET amount_owed = EXCLUDED.amount_owed
SamePair(r, receiptUserID, receiptItemID) ==
    r.receipt_user_id = receiptUserID /\ r.receipt_item_id = receiptItemID

NewAssignmentRow(rows, assignmentID, receiptUserID, receiptItemID, amountPaid) ==
    [id |-> assignmentID, receipt_user_id |-> receiptUserID,
     receipt_item_id |-> receiptItemID, amount_owed |-> amountPaid,
     created_at |-> CURRENT_TIMESTAMP(rows)]

\* (a variant with ON CONFLICT ... DO NOTHING)
UpsertDoNothing(rows, assignmentID, receiptUserID, receiptItemID, amountPaid) ==
    IF \E r \in rows : SamePair(r, receiptUserID, receiptItemID)
    THEN rows
    ELSE rows \cup {NewAssignmentRow(rows, assignmentID, receiptUserID, receiptItemID, amountPaid)}

\* (a variant for a table without the UNIQUE constraint: a plain INSERT)
UpsertWithoutConstraint(rows, assignmentID, receiptUserID, receiptItemID, amountPaid) ==
    rows \cup {NewAssignmentRow(rows, assignmentID, receiptUserID, receiptItemID, amountPaid)}

\* (a variant whose conflict branch also sets created_at = CURRENT_TIMESTAMP)
UpsertRefreshingCreatedAt(rows, assignmentID, receiptUserID, receiptItemID, amountPaid) ==
    IF \E r \in rows : SamePair(r, receiptUserID, receiptItemID)
    THEN {IF SamePair(r, receiptUserID, receiptItemID)
          THEN [r EXCEPT !.amount_owed = amountPaid,
                         !.created_at = CURRENT_TIMESTAMP(rows)]
          ELSE r : r \in rows}
    ELSE rows \cup {NewAssignmentRow(rows, assignmentID, receiptUserID, receiptItemID, amountPaid)}

UpsertAssignment(rows, assignmentID, receiptUserID, receiptItemID, amountPaid) ==
    IF \E r \in rows : SamePair(r, receiptUserID, receiptItemID)
    THEN {IF SamePair(r, receiptUserID, receiptItemID)
          THEN [r EXCEPT !.amount_owed = amountPaid]
          ELSE r : r \in rows}
    ELSE rows \cup {NewAssignmentRow(rows, assignmentID, receiptUserID, receiptItemID, amountPaid)}

\* AssignItemToUser on the assignment table `rows`: the table afterwards, the
\* error returned (Nil for none) and the assignment returned.
AssignItemToUser(rows, receiptUserID, receiptItemID, amountPaid) ==
    LET verr == VerifyUserAndItem(receiptUserID, receiptItemID)
    IN  IF verr # Nil
        THEN [rows |-> rows, err |-> verr, assignment |-> Nil]
        ELSE LET assignmentID == NewULID({r.id : r \in rows})
                 after == UpsertAssignment(rows, assignmentID, receiptUserID,
                                           receiptItemID, amountPaid)
                 byID == {r \in after : r.id = assignmentID}
             IN  IF byID = {}
                 THEN [rows |-> after, err |-> ErrGetData(PgxNoRows), assignment |-> Nil]
                 ELSE [rows |-> after, err |-> Nil,
                       assignment |-> Some([ID |-> assignmentID,
                                            ReceiptUserID |-> receiptUserID,
                                            ReceiptItemID |-> receiptItemID,
                                            AmountOwed |-> (CHOOSE r \in byID : TRUE).amount_owed])]

\* AddUserToReceipt: the INSERT fails on the foreign key when the receipt is absent
\* a variant that returns the receipt's participant of that name when there
\* is one, instead of inserting another
AddUserToReceiptOncePerName(receiptID, name) ==
    LET userID == NewULID({u.id : u \in receipt_users})
        same == {u \in receipt_users : u.receipt_id = receiptID /\ u.name = name}
    IN  IF receiptID \notin receipts
        THEN [rows |-> receipt_users, err |-> ErrReceiptNotFound, user |-> Nil]
        ELSE IF same # {}
        THEN [rows |-> receipt_users, err |-> Nil,
              user |-> Some([ID |-> (CHOOSE u \in same : TRUE).id,
                             ReceiptID |-> receiptID, Name |-> name])]
        ELSE [rows |-> receipt_users \cup
                        {[id |-> userID, receipt_id |-> receiptID, name |-> name,
                          created_at |-> CURRENT_TIMESTAMP(receipt_users)]},
              err |-> Nil,
              user |-> Some([ID |-> userID, ReceiptID |-> receiptID, Name |-> name])]

AddUserToReceipt(receiptID, name) ==
    LET userID == NewULID({u.id : u \in receipt_users})
    IN  IF receiptID \notin receipts
        THEN [rows |-> receipt_users,
              err |-> IF Contains(PgForeignKeyViolation, ForeignKeyWords)
                      THEN ErrReceiptNotFound
                      ELSE ErrInsertUser(PgForeignKeyViolation),
              user |-> Nil]
        ELSE [rows |-> receipt_users \cup
                        {[id |-> userID, receipt_id |-> receiptID, name |-> name,
                          created_at |-> CURRENT_TIMESTAMP(receipt_users)]},
              err |-> Nil,
              user |-> Some([ID |-> userID, ReceiptID |-> receiptID, Name |-> name])]

ReceiptExists(receiptID) == receiptID \in receipts

GetReceiptUsers(receiptID) ==
    OrderByCreatedAt({u \in receipt_users : u.receipt_id = receiptID})

GetReceiptItems(receiptID) ==
    OrderById({i \in receipt_items : i.receipt_id = receiptID})

\* JOIN receipt_users ru ON ru.id = rui.receipt_user_id WHERE ru.receipt_id = $1
\* ORDER BY rui.created_at ASC
\* (a variant reading the same rows ORDER BY rui.created_at DESC)
GetReceiptAssignmentsNewestFirst(receiptID) ==
    LET rows == OrderByCreatedAt({a \in receipt_user_items :
            \E u \in receipt_users : u.id = a.receipt_user_id /\ u.receipt_id = receiptID})
    IN  [k \in 1..Len(rows) |-> rows[Len(rows) + 1 - k]]

GetReceiptAssignments(receiptID) ==
    OrderByCreatedAt({a \in receipt_user_items :
        \E u \in receipt_users : u.id = a.receipt_user_id /\ u.receipt_id = receiptID})

(***************************************************************************)
(* POST /receipts: item validation and SaveReceipt.                        *)
(***************************************************************************)
\* float64 division total / quantity, to the nearest milli
DivByQuantity(total, quantity) ==
    IF total >= 0 THEN (2 * total + quantity) \div (2 * quantity)
    ELSE 0 - ((2 * (0 - total) + quantity) \div (2 * quantity))

\* the checks convertReceiptItems makes on one item: Nil, or the message
ItemError(item) ==
    IF item.Name = "" THEN <<"name", "is", "required">>
    ELSE IF item.Quantity <= 0
         THEN <<"quantity", "must", "be", "greater", "than", "0">>
    ELSE IF item.TotalPrice = Nil /\ item.PricePerItem = Nil
         THEN <<"either", "total_price", "or", "price_per_item", "must", "be", "provided">>
    ELSE Nil

\* the derived persistence.ReceiptItemDB of an item that passed the checks
\* (ItemToSaveIgnoringQuantity is a variant that derives the missing price
\* without the quantity)
ItemToSaveIgnoringQuantity(item) ==
    IF item.TotalPrice = Nil /\ item.PricePerItem # Nil
    THEN [Name |-> item.Name, Quantity |-> item.Quantity,
          TotalPrice |-> item.PricePerItem[1], PricePerItem |-> item.PricePerItem[1]]
    ELSE IF item.PricePerItem = Nil /\ item.TotalPrice # Nil
    THEN [Name |-> item.Name, Quantity |-> item.Quantity,
          TotalPrice |-> item.TotalPrice[1], PricePerItem |-> item.TotalPrice[1]]
    ELSE [Name |-> item.Name, Quantity |-> item.Quantity,
          TotalPrice |-> item.TotalPrice[1], PricePerItem |-> item.PricePerItem[1]]

ItemToSave(item) ==
    IF item.TotalPrice = Nil /\ item.PricePerItem # Nil
    THEN [Name |-> item.Name, Quantity |-> item.Quantity,
          TotalPrice |-> item.PricePerItem[1] * item.Quantity,
          PricePerItem |-> item.PricePerItem[1]]
    ELSE IF item.PricePerItem = Nil /\ item.TotalPrice # Nil
    THEN [Name |-> item.Name, Quantity |-> item.Quantity,
          TotalPrice |-> item.TotalPrice[1],
          PricePerItem |-> DivByQuantity(item.TotalPrice[1], item.Quantity)]
    ELSE [Name |-> item.Name, Quantity |-> item.Quantity,
          TotalPrice |-> item.TotalPrice[1],
          PricePerItem |-> item.PricePerItem[1]]

\* a variant that drops the items failing the checks instead of returning
convertSkippingInvalid(items) ==
    [items |-> [k \in 1..Len(SelectSeq(items, LAMBDA it : ItemError(it) = Nil)) |->
                   ItemToSave(SelectSeq(items, LAMBDA it : ItemError(it) = Nil)[k])],
     err |-> Nil]

\* convertReceiptItems: returns at the first item failing a check
convertReceiptItems(items) ==
    LET bad == {k \in 1..Len(items) : ItemError(items[k]) # Nil}
    IN  IF bad = {}
        THEN [items |-> [k \in 1..Len(items) |-> ItemToSave(items[k])], err |-> Nil]
        ELSE [items |-> <<>>,
              err |-> <<"item", ToString(Min(bad))>> \o ItemError(items[Min(bad)])]

\* the receipt_items rows a transaction has inserted so far
TxRows(t) ==
    {[id |-> t.done[k].id, receipt_id |-> t.rid, name |-> t.done[k].item.Name,
      quantity |-> t.done[k].item.Quantity,
      total_price |-> t.done[k].item.TotalPrice,
      price_per_item |-> t.done[k].item.PricePerItem] : k \in 1..Len(t.done)}

\* tx.pc: "idle" (no SaveReceipt yet), "items" (inside the transaction),
\* "committed" (after tx.Commit, before the response) and "rolledback" (the
\* last SaveReceipt failed and its deferred tx.Rollback has run)
NoColumns == [image_url |-> Nil, ocr_text |-> Nil, tax |-> Nil, tip |-> Nil]

TxIdle == [pc |-> "idle", op |-> "none", rid |-> 0, columns |-> NoColumns,
           items |-> <<>>, todo |-> <<>>, done |-> <<>>]

\* what the tables hold after the transaction t ends without a commit
\* (defer tx.Rollback), and a variant that keeps what was inserted
KeepPartialWrites(rcpts, items, t) ==
    [receipts |-> rcpts \cup {t.rid}, receipt_items |-> items \cup TxRows(t)]

Rollback(rcpts, items, t) ==
    [receipts |-> rcpts, receipt_items |-> items]

\* what the tables hold after tx.Commit succeeds
Commit(rcpts, items, t) ==
    [receipts |-> rcpts \cup {t.rid}, receipt_items |-> items \cup TxRows(t)]

Response(op, status, err, body) ==
    [op |-> op, status |-> status, err |-> err, body |-> body]

NoResponse == Response("none", 0, Nil, Nil)

ErrBegin == <<"failed", "to", "insert", "receipt:">> \o PgFailure
ErrInsertItem == <<"failed", "to", "insert", "receipt", "item:">> \o PgFailure
ErrCommit == <<"failed", "to", "commit", "transaction:">> \o PgFailure
ErrGetReceipt == <<"failed", "to", "get", "receipt", "data:">> \o PgFailure

ErrGemini == <<"gemini", "request", "failed">>
ErrUpload == <<"Failed", "to", "upload", "image">>
ErrImageRequest == <<"failed", "to", "get", "image", "file">>

\* AddReceiptHandler up to SaveReceipt's INSERT of the receipt row
AddReceiptHandler(body) ==
    /\ tx.pc \in {"idle", "rolledback"}
    /\ LET c == convertReceiptItems(body)
       IN  IF c.err # Nil
           THEN /\ resp' = Response("AddReceipt", 400, c.err, Nil)
                /\ UNCHANGED tx
           ELSE /\ Cardinality(receipts) < MaxReceipts
                /\ \E ok \in BOOLEAN :
                    IF ok
                    THEN /\ tx' = [pc |-> "items", op |-> "AddReceipt",
                                   rid |-> NewULID(receipts), columns |-> NoColumns,
                                   items |-> c.items, todo |-> c.items, done |-> <<>>]
                         /\ UNCHANGED resp
                    ELSE /\ tx' = [pc |-> "rolledback", op |-> "AddReceipt",
                                   rid |-> NewULID(receipts), columns |-> NoColumns,
                                   items |-> c.items, todo |-> c.items, done |-> <<>>]
                         /\ resp' = Response("AddReceipt", 500, ErrBegin, Nil)
    /\ UNCHANGED <<receipts, receipt_columns, receipt_items, receipt_users, receipt_user_items, req, inflight>>

\* SaveReceipt: one INSERT of the item loop, inside the transaction
SaveReceiptInsertItem ==
    /\ tx.pc = "items"
    /\ tx.todo # <<>>
    /\ \E ok \in BOOLEAN :
        IF ok
        THEN /\ tx' = [tx EXCEPT
                    !.todo = Tail(tx.todo),
                    !.done = Append(tx.done,
                        [id |-> NewULID({i.id : i \in receipt_items \cup TxRows(tx)}),
                         item |-> Head(tx.todo)])]
             /\ UNCHANGED <<receipts, receipt_columns, receipt_items, resp>>
        ELSE LET after == Rollback(receipts, receipt_items, tx)
             IN  /\ receipts' = after.receipts
                 /\ receipt_items' = after.receipt_items
                 /\ tx' = [tx EXCEPT !.pc = "rolledback"]
                 /\ resp' = Response(tx.op, 500, ErrInsertItem, Nil)
                 /\ UNCHANGED receipt_columns
    /\ UNCHANGED <<receipt_users, receipt_user_items, req, inflight>>

\* SaveReceipt: tx.Commit
SaveReceiptCommit ==
    /\ tx.pc = "items"
    /\ tx.todo = <<>>
    /\ \E ok \in BOOLEAN :
        IF ok
        THEN LET after == Commit(receipts, receipt_items, tx)
             IN  /\ receipts' = after.receipts
                 /\ receipt_items' = after.receipt_items
                 /\ receipt_columns' = receipt_columns @@ (tx.rid :> tx.columns)
                 /\ tx' = [tx EXCEPT !.pc = "committed"]
                 /\ UNCHANGED resp
        ELSE LET after == Rollback(receipts, receipt_items, tx)
             IN  /\ receipts' = after.receipts
                 /\ receipt_items' = after.receipt_items
                 /\ tx' = [tx EXCEPT !.pc = "rolledback"]
                 /\ resp' = Response(tx.op, 500, ErrCommit, Nil)
                 /\ UNCHANGED receipt_columns
    /\ UNCHANGED <<receipt_users, receipt_user_items, req, inflight>>

\* SaveReceipt: the SELECT after the commit, and the handler's response
SaveReceiptReturn ==
    /\ tx.pc = "committed"
    /\ \E ok \in BOOLEAN :
        resp' = IF ok
                THEN Response(tx.op, 201, Nil, [receipt_id |-> tx.rid])
                ELSE Response(tx.op, 500, ErrGetReceipt, Nil)
    /\ tx' = TxIdle
    /\ UNCHANGED <<receipts, receipt_columns, receipt_items, receipt_users, receipt_user_items, req, inflight>>

(***************************************************************************)
(* Ingestion: the normalizer of storage.ParseReceiptItemsWithGemini and    *)
(* the regular-expression parser storage.ExtractReceiptItemsFromText.      *)
(* A text is the sequence of its characters (one-character strings).       *)
(***************************************************************************)
\* strings.TrimSpace
RECURSIVE TrimLeft(_)
TrimLeft(s) == IF s # <<>> /\ Head(s) = " " THEN TrimLeft(Tail(s)) ELSE s

RECURSIVE TrimRight(_)
TrimRight(s) ==
    IF s # <<>> /\ s[Len(s)] = " " THEN TrimRight(SubSeq(s, 1, Len(s) - 1)) ELSE s

TrimSpace(s) == TrimRight(TrimLeft(s))

\* the loop body of ParseReceiptItemsWithGemini on one item of the model's
\* JSON answer: the quantity it uses, whether it keeps the item, what it emits
GeminiQuantity(item) == IF item.Quantity <= 0 THEN 1 ELSE item.Quantity

GeminiPrices(item) ==
    LET qty == GeminiQuantity(item)
    IN  IF item.TotalPrice = Nil /\ item.PricePerItem # Nil
        THEN [totalPrice |-> item.PricePerItem[1] * qty,
              pricePerItem |-> item.PricePerItem[1]]
        ELSE IF item.PricePerItem = Nil /\ item.TotalPrice # Nil
        THEN [totalPrice |-> item.TotalPrice[1],
              pricePerItem |-> DivByQuantity(item.TotalPrice[1], qty)]
        ELSE [totalPrice |-> item.TotalPrice[1],
              pricePerItem |-> item.PricePerItem[1]]

GeminiKeeps(item) ==
    /\ TrimSpace(item.Name) # <<>>
    /\ ~(item.TotalPrice = Nil /\ item.PricePerItem = Nil)
    /\ ~(GeminiPrices(item).totalPrice <= 0 \/ GeminiPrices(item).pricePerItem <= 0)

GeminiItem(item) ==
    [Name |-> TrimSpace(item.Name), Quantity |-> GeminiQuantity(item),
     TotalPrice |-> GeminiPrices(item).totalPrice,
     PricePerItem |-> GeminiPrices(item).pricePerItem]

\* the items ParseReceiptItemsWithGemini returns for the answer's items
NormalizeGeminiItems(parsedItems) ==
    LET kept == SelectSeq(parsedItems, GeminiKeeps)
    IN  [k \in 1..Len(kept) |-> GeminiItem(kept[k])]

\* strconv.Atoi on the digits captured by (\d+)
DigitValue(c) ==
    CASE c = "0" -> 0 [] c = "1" -> 1 [] c = "2" -> 2 [] c = "3" -> 3 [] c = "4" -> 4
      [] c = "5" -> 5 [] c = "6" -> 6 [] c = "7" -> 7 [] c = "8" -> 8 [] c = "9" -> 9

RECURSIVE Atoi(_)
Atoi(digits) ==
    IF digits = <<>> THEN 0
    ELSE 10 * Atoi(SubSeq(digits, 1, Len(digits) - 1)) + DigitValue(digits[Len(digits)])

\* strings.ReplaceAll(s, ",", "")
RemoveCommas(s) == SelectSeq(s, LAMBDA c : c # ",")

\* strconv.ParseFloat on a text matched by [\d,]+\.?\d{0,2} with its commas
\* removed: Nil when no digit is left before the point, else the value
ParseFloat(price) ==
    LET whole == RemoveCommas(price.whole)
        frac == price.frac
    IN  IF whole = <<>> THEN Nil
        ELSE Some(1000 * Atoi(whole)
                  + (IF Len(frac) = 0 THEN 0
                     ELSE IF Len(frac) = 1 THEN 100 * DigitValue(frac[1])
                     ELSE 100 * DigitValue(frac[1]) + 10 * DigitValue(frac[2])))

\* float64 division by a converted int: by zero it is +Inf for a positive
\* dividend, -Inf for a negative one and NaN for zero
PosInf == 1000000000
NaN == "NaN"

FloatDiv(price, quantity) ==
    IF quantity # 0 THEN DivByQuantity(price, quantity)
    ELSE IF price > 0 THEN PosInf
    ELSE IF price < 0 THEN 0 - PosInf
    ELSE NaN

\* ExtractReceiptItemsFromText on one line that is not skipped; line.price is
\* what pricePattern.FindStringSubmatch captured (name, quantity digits,
\* price), Nil when it does not match
NoItem == [found |-> FALSE, Name |-> <<>>, Quantity |-> 0, TotalPrice |-> 0,
           PricePerItem |-> 0]

ExtractLineItem(line) ==
    IF line.price # Nil
    THEN LET m == line.price[1]
             quantity == IF m.quantity # <<>> THEN Atoi(m.quantity) ELSE 1
             price == ParseFloat(m.price)
         IN  IF price # Nil
             THEN [found |-> TRUE, Name |-> TrimSpace(m.name), Quantity |-> quantity,
                   TotalPrice |-> price[1],
                   PricePerItem |-> FloatDiv(price[1], quantity)]
             ELSE [NoItem EXCEPT !.Name = TrimSpace(m.name), !.Quantity = quantity]
    ELSE IF line.endPrice # Nil
    THEN LET m == line.endPrice[1]
             price == ParseFloat(m.price)
         IN  IF price # Nil
             THEN [found |-> TRUE, Name |-> TrimSpace(m.name), Quantity |-> 1,
                   TotalPrice |-> price[1], PricePerItem |-> price[1]]
             ELSE [NoItem EXCEPT !.Name = TrimSpace(m.name), !.Quantity = 1]
    ELSE NoItem

ExtractKeeps(line) ==
    LET item == ExtractLineItem(line)
    IN  item.found /\ item.Name # <<>> /\ item.TotalPrice > 0

ExtractReceiptItemsFromText(lines) ==
    LET kept == SelectSeq(lines, ExtractKeeps)
    IN  [k \in 1..Len(kept) |->
            [Name |-> ExtractLineItem(kept[k]).Name,
             Quantity |-> ExtractLineItem(kept[k]).Quantity,
             TotalPrice |-> ExtractLineItem(kept[k]).TotalPrice,
             PricePerItem |-> ExtractLineItem(kept[k]).PricePerItem]]

\* the two parsers called on their own: answer is the model's JSON answer
\* (or its failure), lines is an OCR text
ParseReceiptItemsWithGemini(answer) ==
    /\ resp = NoResponse
    /\ resp' = IF answer.err
               THEN Response("ParseReceiptItemsWithGemini", 0, ErrGemini, <<>>)
               ELSE Response("ParseReceiptItemsWithGemini", 0, Nil,
                             NormalizeGeminiItems(answer.items))
    /\ UNCHANGED <<receipts, receipt_columns, receipt_items, receipt_users, receipt_user_items, tx, req, inflight>>

ExtractReceiptItemsFromTextCall(lines) ==
    /\ resp = NoResponse
    /\ resp' = Response("ExtractReceiptItemsFromText", 0, Nil,
                        ExtractReceiptItemsFromText(lines))
    /\ UNCHANGED <<receipts, receipt_columns, receipt_items, receipt_users, receipt_user_items, tx, req, inflight>>

\* UploadReceiptImageHandler from the OCR call to the arguments of SaveReceipt.
\* up.ocr and up.llm are what the OCR and the extraction services answer.
NothingParsed == [ocrText |-> Nil, items |-> <<>>, tax |-> Nil, tip |-> Nil]

ParseOCR(up) ==
    IF up.ocr.err THEN NothingParsed
    ELSE IF up.ocr.text = <<>> THEN NothingParsed
    ELSE IF up.llm.err
         THEN [ocrText |-> Some(up.ocr.text),
               items |-> ExtractReceiptItemsFromText(up.ocr.text),
               tax |-> Nil, tip |-> Nil]
    ELSE [ocrText |-> Some(up.ocr.text),
          items |-> NormalizeGeminiItems(up.llm.items),
          tax |-> up.llm.tax, tip |-> up.llm.tip]

\* UploadReceiptImageHandler up to SaveReceipt's INSERT of the receipt row;
\* up.valid tells whether validateReceiptImageRequest accepts the request and
\* up.upload whether the upload to the bucket succeeds
UploadReceiptImageHandler(up) ==
    /\ tx.pc \in {"idle", "rolledback"}
    /\ IF ~up.valid
       THEN /\ resp' = Response("UploadReceiptImage", 400, ErrImageRequest, Nil)
            /\ UNCHANGED tx
       ELSE IF ~up.upload
       THEN /\ resp' = Response("UploadReceiptImage", 500, ErrUpload, Nil)
            /\ UNCHANGED tx
       ELSE /\ Cardinality(receipts) < MaxReceipts
            /\ LET parsed == ParseOCR(up)
                   begun == [pc |-> "items", op |-> "UploadReceiptImage",
                             rid |-> NewULID(receipts),
                             columns |-> [image_url |-> Some("imageURL"),
                                          ocr_text |-> parsed.ocrText,
                                          tax |-> parsed.tax, tip |-> parsed.tip],
                             items |-> parsed.items, todo |-> parsed.items,
                             done |-> <<>>]
               IN  \E ok \in BOOLEAN :
                    IF ok
                    THEN /\ tx' = begun
                         /\ UNCHANGED resp
                    ELSE /\ tx' = [begun EXCEPT !.pc = "rolledback"]
                         /\ resp' = Response("UploadReceiptImage", 500, ErrBegin, Nil)
    /\ UNCHANGED <<receipts, receipt_columns, receipt_items, receipt_users, receipt_user_items, req, inflight>>

(***************************************************************************)
(* Currency rules: package money on top of github.com/Rhymond/go-money.    *)
(* A float64 value is an integer number of thousandths (milli), a currency *)
(* pointer is Nil or Some(code), a code and a formatted number are         *)
(* sequences of one-character strings.                                     *)
(***************************************************************************)
RECURSIVE Pow10(_)
Pow10(e) == IF e = 0 THEN 1 ELSE 10 * Pow10(e - 1)

\* strings.ToUpper, on the letters of the codes in use
UpperChar(c) ==
    CASE c = "u" -> "U" [] c = "s" -> "S" [] c = "d" -> "D"
      [] c = "j" -> "J" [] c = "p" -> "P" [] c = "y" -> "Y"
      [] c = "k" -> "K" [] c = "w" -> "W"
      [] OTHER -> c
ToUpper(code) == [k \in 1..Len(code) |-> UpperChar(code[k])]

USD == <<"U", "S", "D">>
JPY == <<"J", "P", "Y">>
KWD == <<"K", "W", "D">>

\* go-money's table of ISO 4217 currencies: Fraction by code, Nil when absent
GetCurrency(code) ==
    CASE code = USD -> Some(2)
      [] code = JPY -> Some(0)
      [] code = KWD -> Some(3)
      [] OTHER -> Nil

\* code := money.USD; if currency != nil && strings.TrimSpace(*currency) != ""
\*     { code = strings.ToUpper(*currency) }
CurrencyCode(currency) ==
    IF currency # Nil /\ TrimSpace(currency[1]) # <<>> THEN ToUpper(currency[1]) ELSE USD

\* (a variant that answers 2 for every currency)
DecimalPlacesAlwaysTwo(currency) == 2

DecimalPlaces(currency) ==
    LET c == GetCurrency(CurrencyCode(currency))
    IN  IF c = Nil THEN 2 ELSE c[1]

\* newCurrency(code).get().Fraction: a code missing from the table gets
\* go-money's default currency, of Fraction 2
MoneyFraction(code) ==
    IF GetCurrency(code) = Nil THEN 2 ELSE GetCurrency(code)[1]

\* money.NewFromFloat: int64(amount * 10^Fraction), which drops the decimals
\* beyond the minor unit (toward zero); the result is in minor units
NewFromFloat(value, code) == GoDiv(value * Pow10(MoneyFraction(code)), 1000)

\* (a variant of Money.Round that leaves the minor units alone)
MoneyRoundKeepingMinorUnits(amount, fraction) == amount

\* Money.Round, go-money's calculator.round(a, Fraction): the amount in minor
\* units rounded to a whole number of major units, half toward zero
MoneyRound(amount, fraction) ==
    IF amount = 0 THEN 0
    ELSE LET absam == IF amount < 0 THEN 0 - amount ELSE amount
             exp == Pow10(fraction)
             m == absam % exp
             up == IF m > exp \div 2 THEN absam + exp ELSE absam
             rounded == (up \div exp) * exp
         IN  IF amount < 0 THEN 0 - rounded ELSE rounded

\* Money.AsMajorUnits: float64(amount) / 10^Fraction, in milli
AsMajorUnits(amount, fraction) == (amount * 1000) \div Pow10(fraction)

Round(value, currency) ==
    LET code == CurrencyCode(currency)
        m == NewFromFloat(value, code)
        rounded == MoneyRound(m, MoneyFraction(code))
    IN  AsMajorUnits(rounded, MoneyFraction(code))

NewAmount(value, currency) == [Value |-> Round(value, currency), Currency |-> currency]

\* money.Ptr
Ptr(value, currency) ==
    IF value = Nil THEN Nil ELSE Some(NewAmount(value[1], currency))

\* the decimal digits of a natural number, at least `width` of them
DigitChars == <<"0", "1", "2", "3", "4", "5", "6", "7", "8", "9">>
RECURSIVE Digits(_, _)
Digits(n, width) ==
    IF n < 10 /\ width <= 1 THEN <<DigitChars[n + 1]>>
    ELSE Digits(n \div 10, width - 1) \o <<DigitChars[(n % 10) + 1]>>

\* fmt.Sprintf("%.<decimals>f", value): the nearest decimal of that many
\* fractional digits, a tie going to the even digit (a tie at this resolution
\* is exact in binary only for halves, quarters and eighths)
Sprintf(decimals, value) ==
    LET absv == IF value < 0 THEN 0 - value ELSE value
        num == absv * Pow10(decimals)
        q == num \div 1000
        r == num % 1000
        scaled == IF r > 500 \/ (r = 500 /\ q % 2 = 1) THEN q + 1 ELSE q
        whole == Digits(scaled \div Pow10(decimals), 1)
        frac == IF decimals = 0 THEN <<>>
                ELSE <<".">> \o Digits(scaled % Pow10(decimals), decimals)
    IN  (IF value < 0 THEN <<"-">> ELSE <<>>) \o whole \o frac

\* Amount.MarshalJSON: the bytes and the error returned
MarshalJSON(a) ==
    [bytes |-> Sprintf(DecimalPlaces(a.Currency), a.Value), err |-> Nil]

\* calls of package money on the request's value and currency
RoundCall ==
    /\ resp' = Response("Round", 0, Nil, [value |-> Round(req.value, req.currency)])
    /\ UNCHANGED <<receipts, receipt_columns, receipt_items, receipt_users, receipt_user_items, tx, req, inflight>>

\* Round applied to what Round returned
RoundAgain ==
    /\ resp.op = "Round"
    /\ resp' = Response("RoundAgain", 0, Nil,
                        [value |-> Round(resp.body.value, req.currency),
                         once |-> resp.body.value])
    /\ UNCHANGED <<receipts, receipt_columns, receipt_items, receipt_users, receipt_user_items, tx, req, inflight>>

DecimalPlacesCall ==
    /\ resp' = Response("DecimalPlaces", 0, Nil, [places |-> DecimalPlaces(req.currency)])
    /\ UNCHANGED <<receipts, receipt_columns, receipt_items, receipt_users, receipt_user_items, tx, req, inflight>>

\* json.Marshal(Amount{Value: value, Currency: currency})
MarshalJSONCall ==
    /\ LET a == [Value |-> req.value, Currency |-> req.currency]
       IN  resp' = Response("MarshalJSON", 0, MarshalJSON(a).err,
                            [amount |-> a, bytes |-> MarshalJSON(a).bytes])
    /\ UNCHANGED <<receipts, receipt_columns, receipt_items, receipt_users, receipt_user_items, tx, req, inflight>>

\* json.Marshal(NewAmount(value, currency))
NewAmountCall ==
    /\ LET a == NewAmount(req.value, req.currency)
       IN  resp' = Response("NewAmount", 0, MarshalJSON(a).err,
                            [amount |-> a, bytes |-> MarshalJSON(a).bytes])
    /\ UNCHANGED <<receipts, receipt_columns, receipt_items, receipt_users, receipt_user_items, tx, req, inflight>>

(***************************************************************************)
(* Handlers on participants, assignments and the receipt view.             *)
(***************************************************************************)
\* POST /receipts/{receipt_id}/users
AddUserToReceiptHandler(receiptID, name) ==
    /\ IF name = ""
       THEN /\ resp' = Response("AddUser", 400, <<"name", "is", "required">>, Nil)
            /\ UNCHANGED receipt_users
       ELSE LET r == AddUserToReceipt(receiptID, name)
            IN  IF r.err # Nil
                THEN /\ resp' = Response("AddUser", StatusOfError(r.err), r.err, Nil)
                     /\ UNCHANGED receipt_users
                ELSE /\ Cardinality(receipt_users) < MaxUsers
                     /\ receipt_users' = r.rows
                     /\ resp' = Response("AddUser", 201, Nil, r.user[1])
    /\ UNCHANGED <<receipts, receipt_columns, receipt_items, receipt_user_items, tx, req, inflight>>

\* the loop of AssignItemsToUserHandler over item_ids: every AssignItemToUser
\* is its own statement sequence, and the first error ends the request
RECURSIVE AssignLoop(_, _, _, _)
AssignLoop(rows, userID, itemIDs, assignedItems) ==
    IF itemIDs = <<>>
    THEN [rows |-> rows, status |-> 201, err |-> Nil, items |-> assignedItems]
    ELSE LET r == AssignItemToUser(rows, userID, Head(itemIDs), Nil)
         IN  IF r.err # Nil
             THEN [rows |-> r.rows, status |-> StatusOfError(r.err), err |-> r.err,
                   items |-> <<>>]
             ELSE AssignLoop(r.rows, userID, Tail(itemIDs),
                             Append(assignedItems,
                                    [ID |-> r.assignment[1].ID,
                                     ReceiptUserID |-> r.assignment[1].ReceiptUserID,
                                     ReceiptItemID |-> r.assignment[1].ReceiptItemID]))

\* POST /receipts/{receipt_id}/users/{user_id}/items
AssignItemsToUserHandler(receiptID, userID, itemIDs) ==
    /\ IF itemIDs = <<>>
       THEN /\ resp' = Response("AssignItems", 400,
                                <<"at", "least", "one", "item_id", "is", "required">>,
                                [user |-> userID, item_ids |-> itemIDs, items |-> <<>>])
            /\ UNCHANGED receipt_user_items
       ELSE LET r == AssignLoop(receipt_user_items, userID, itemIDs, <<>>)
            IN  /\ receipt_user_items' = r.rows
                /\ resp' = Response("AssignItems", r.status, r.err,
                                    [user |-> userID, item_ids |-> itemIDs,
                                     items |-> r.items])
    /\ UNCHANGED <<receipts, receipt_columns, receipt_items, receipt_users, tx, req, inflight>>

\* a direct call of persistence.AssignItemToUser with a custom amount
AssignItemToUserCall(userID, itemID, amountPaid) ==
    /\ LET r == AssignItemToUser(receipt_user_items, userID, itemID, amountPaid)
       IN  /\ receipt_user_items' = r.rows
           /\ resp' = Response("AssignItemToUser", 0, r.err,
                               [user |-> userID, item |-> itemID,
                                amount |-> amountPaid, assignment |-> r.assignment])
    /\ UNCHANGED <<receipts, receipt_columns, receipt_items, receipt_users, tx, req, inflight>>

\* GET /receipts/{receipt_id}
\* the body GetReceiptHandler builds from what its three queries returned
ReceiptView(receiptID, users, items, assignments) ==
    LET split == ComputeBillSplit(items, assignments)
    IN  [receipt_id |-> receiptID,
         users |-> [k \in 1..Len(users) |->
                      [id |-> users[k].id, receipt_id |-> users[k].receipt_id,
                       name |-> users[k].name]],
         items |-> [k \in 1..Len(items) |->
                      [id |-> items[k].id, total_price |-> items[k].total_price,
                       price_per_item |-> items[k].price_per_item,
                       quantity |-> items[k].quantity, name |-> items[k].name]],
         assignments |-> [k \in 1..Len(assignments) |->
                      [id |-> assignments[k].id,
                       user_id |-> assignments[k].receipt_user_id,
                       item_id |-> assignments[k].receipt_item_id,
                       amount |-> split.AmountByUserItem[
                           <<assignments[k].receipt_user_id,
                             assignments[k].receipt_item_id>>]]],
         user_total |-> split.UserTotal]

\* GetReceiptHandler served with no statement of another request in between
GetReceiptHandler(receiptID) ==
    /\ IF ~ReceiptExists(receiptID)
       THEN resp' = Response("GetReceipt", 404, ErrReceiptNotFound,
                             [receipt_id |-> receiptID])
       ELSE resp' = Response("GetReceipt", 200, Nil,
                        ReceiptView(receiptID, GetReceiptUsers(receiptID),
                                    GetReceiptItems(receiptID),
                                    GetReceiptAssignments(receiptID)))
    /\ UNCHANGED <<receipts, receipt_columns, receipt_items, receipt_users, receipt_user_items, tx, req, inflight>>

\* GetReceiptHandler query by query: inflight.get is the request being
\* served, with what it has read so far
NoReader == [pc |-> "idle", receipt_id |-> 0, users |-> <<>>, items |-> <<>>]

GetReceiptExists(receiptID) ==
    /\ inflight.get.pc = "idle"
    /\ IF ~ReceiptExists(receiptID)
       THEN /\ resp' = Response("GetReceipt", 404, ErrReceiptNotFound,
                                [receipt_id |-> receiptID])
            /\ UNCHANGED inflight
       ELSE /\ inflight' = [inflight EXCEPT !.get =
                                [NoReader EXCEPT !.pc = "users", !.receipt_id = receiptID]]
            /\ UNCHANGED resp
    /\ UNCHANGED <<receipts, receipt_columns, receipt_items, receipt_users, receipt_user_items, tx, req>>

GetReceiptReadUsers ==
    /\ inflight.get.pc = "users"
    /\ inflight' = [inflight EXCEPT !.get.pc = "items",
                       !.get.users = GetReceiptUsers(inflight.get.receipt_id)]
    /\ UNCHANGED <<receipts, receipt_columns, receipt_items, receipt_users, receipt_user_items, tx, req, resp>>

GetReceiptReadItems ==
    /\ inflight.get.pc = "items"
    /\ inflight' = [inflight EXCEPT !.get.pc = "assignments",
                       !.get.items = GetReceiptItems(inflight.get.receipt_id)]
    /\ UNCHANGED <<receipts, receipt_columns, receipt_items, receipt_users, receipt_user_items, tx, req, resp>>

GetReceiptReadAssignments ==
    /\ inflight.get.pc = "assignments"
    /\ resp' = Response("GetReceipt", 200, Nil,
                        ReceiptView(inflight.get.receipt_id, inflight.get.users,
                                    inflight.get.items,
                                    GetReceiptAssignments(inflight.get.receipt_id)))
    /\ inflight' = [inflight EXCEPT !.get = NoReader]
    /\ UNCHANGED <<receipts, receipt_columns, receipt_items, receipt_users, receipt_user_items, tx, req>>

(***************************************************************************)
(* PATCH /receipts/{id}: the dispatch of main.go on /receipts/ paths, the  *)
(* handler and persistence.UpdateReceiptTaxTip.                            *)
(***************************************************************************)
\* the handler main.go's function on "/receipts/" passes a request to;
\* pathParts is strings.Split(strings.Trim(r.URL.Path, "/"), "/")
ReceiptsRoute(method, pathParts) ==
    IF Len(pathParts) = 5 /\ pathParts[1] = "receipts" /\ pathParts[3] = "users"
          /\ pathParts[5] = "items" /\ method = "POST"
    THEN "AssignItemsToUserHandler"
    ELSE IF Len(pathParts) = 3 /\ pathParts[1] = "receipts" /\ pathParts[3] = "users"
    THEN (IF method = "POST" THEN "AddUserToReceiptHandler"
          ELSE IF method = "GET" THEN "GetReceiptUsersHandler"
          ELSE "MethodNotAllowed")
    ELSE IF Len(pathParts) = 3 /\ pathParts[1] = "receipts" /\ pathParts[3] = "items"
          /\ method = "GET"
    THEN "GetReceiptItemsHandler"
    ELSE IF Len(pathParts) = 2 /\ pathParts[1] = "receipts" /\ method = "GET"
    THEN "GetReceiptHandler"
    ELSE "NotFound"

ErrTaxOrTipRequired == <<"at", "least", "one", "of", "tax", "or", "tip", "is", "required">>
ErrPageNotFound == <<"404", "page", "not", "found">>

\* UPDATE receipts SET the supplied columns WHERE id = receiptID
UpdateReceiptTaxTip(columns, receiptID, tax, tip) ==
    IF tax = Nil /\ tip = Nil
    THEN [columns |-> columns,
          err |-> <<"at", "least", "one", "of", "tax", "or", "tip", "must", "be", "provided">>]
    ELSE IF receiptID \notin DOMAIN columns
    THEN [columns |-> columns, err |-> ErrReceiptNotFound]
    ELSE [columns |->
              [columns EXCEPT ![receiptID] =
                  [@ EXCEPT !.tax = IF tax # Nil THEN tax ELSE @,
                            !.tip = IF tip # Nil THEN tip ELSE @]],
          err |-> Nil]

PatchReceiptHandler(receiptID, tax, tip) ==
    IF tax = Nil /\ tip = Nil
    THEN /\ resp' = Response("PatchReceipt", 400, ErrTaxOrTipRequired,
                             [receipt_id |-> receiptID, tax |-> tax, tip |-> tip])
         /\ UNCHANGED receipt_columns
    ELSE LET r == UpdateReceiptTaxTip(receipt_columns, receiptID, tax, tip)
         IN  IF r.err # Nil
             THEN /\ resp' = Response("PatchReceipt", StatusOfError(r.err), r.err,
                                      [receipt_id |-> receiptID, tax |-> tax, tip |-> tip])
                  /\ UNCHANGED receipt_columns
             ELSE /\ resp' = Response("PatchReceipt", 200, Nil,
                                      [receipt_id |-> receiptID, tax |-> tax, tip |-> tip])
                  /\ receipt_columns' = r.columns

\* the server on PATCH /receipts/{receiptID} with the body {tax, tip}
ServePatchReceipt(receiptID, tax, tip) ==
    /\ IF ReceiptsRoute("PATCH", <<"receipts", receiptID>>) = "PatchReceiptHandler"
       THEN PatchReceiptHandler(receiptID, tax, tip)
       ELSE /\ resp' = Response("PatchReceipt", 404, ErrPageNotFound,
                                [receipt_id |-> receiptID, tax |-> tax, tip |-> tip])
            /\ UNCHANGED receipt_columns
    /\ UNCHANGED <<receipts, receipt_items, receipt_users, receipt_user_items, tx, req, inflight>>

(***************************************************************************)
(* Concurrent requests.  Every statement a request sends to the database   *)
(* is one step; no handler but SaveReceipt opens a transaction, so the     *)
(* statements of different requests interleave freely.                     *)
(***************************************************************************)
Callers == 1..MaxCallers

\* a caller of AssignItemToUser: where it is, its arguments, the id it
\* generated, the rank of its upsert among the upserts executed so far (0
\* before it), and what it returned
IdleCall == [pc |-> "idle", user |-> 0, item |-> 0, amount |-> Nil, id |-> 0,
             order |-> 0, err |-> Nil, assignment |-> Nil]

\* AssignItemToUser: the verification SELECT and ulid.Make
AssignItemToUserVerify(p, receiptUserID, receiptItemID, amountPaid) ==
    /\ inflight[p].pc = "idle"
    /\ LET verr == VerifyUserAndItem(receiptUserID, receiptItemID)
           call == [IdleCall EXCEPT !.user = receiptUserID, !.item = receiptItemID,
                                    !.amount = amountPaid]
           used == {r.id : r \in receipt_user_items} \cup {inflight[q].id : q \in Callers}
       IN  inflight' = [inflight EXCEPT ![p] =
               IF verr # Nil
               THEN [call EXCEPT !.pc = "returned", !.err = verr]
               ELSE [call EXCEPT !.pc = "upsert", !.id = NewULID(used)]]
    /\ UNCHANGED <<receipts, receipt_columns, receipt_items, receipt_users, receipt_user_items, tx, req, resp>>

\* AssignItemToUser: the INSERT ... ON CONFLICT DO UPDATE statement
AssignItemToUserUpsert(p) ==
    /\ inflight[p].pc = "upsert"
    /\ receipt_user_items' =
          UpsertAssignment(receipt_user_items, inflight[p].id, inflight[p].user,
                           inflight[p].item, inflight[p].amount)
    /\ inflight' = [inflight EXCEPT ![p].pc = "reread",
                       ![p].order = 1 + Max({inflight[q].order : q \in Callers})]
    /\ UNCHANGED <<receipts, receipt_columns, receipt_items, receipt_users, tx, req, resp>>

\* AssignItemToUser: the SELECT of the row by the generated id, and the return
AssignItemToUserReread(p) ==
    /\ inflight[p].pc = "reread"
    /\ LET byID == {r \in receipt_user_items : r.id = inflight[p].id}
       IN  inflight' = [inflight EXCEPT ![p] =
               IF byID = {}
               THEN [@ EXCEPT !.pc = "returned", !.err = ErrGetData(PgxNoRows)]
               ELSE [@ EXCEPT !.pc = "returned",
                        !.assignment =
                            Some([ID |-> inflight[p].id,
                                  ReceiptUserID |-> inflight[p].user,
                                  ReceiptItemID |-> inflight[p].item,
                                  AmountOwed |-> (CHOOSE r \in byID : TRUE).amount_owed])]]
    /\ UNCHANGED <<receipts, receipt_columns, receipt_items, receipt_users, receipt_user_items, tx, req, resp>>

\* ComputeBillSplit statement by statement.  A Go map is a function; reading
\* a missing key gives 0, and `range itemUserOrder` visits the keys in an
\* order the runtime chooses, given here as the sequence `order`.
MapGet(m, key) == IF key \in DOMAIN m THEN m[key] ELSE 0
MapSet(m, key, value) == (key :> value) @@ m

\* the keys of itemUserOrder
RangeKeys(assignments) ==
    {assignments[k].receipt_item_id : k \in 1..Len(assignments)}

RangeOrders(S) ==
    {s \in [1..Cardinality(S) -> S] : \A x \in S : \E k \in 1..Cardinality(S) : s[k] = x}

\* key := userID + ":" + itemID (and a variant that leaves the item out)
SplitKeyByUser(userID, itemID) == <<userID, 0>>

SplitKey(userID, itemID) == <<userID, itemID>>

\* the inner loop `for i, userID := range userIDs`, from the Go index i on
RECURSIVE SplitAmongUsers(_, _, _, _, _)
SplitAmongUsers(amounts, userIDs, itemID, totalCents, i) ==
    IF i >= Len(userIDs) THEN amounts
    ELSE SplitAmongUsers(
             MapSet(amounts, SplitKey(userIDs[i + 1], itemID),
                    CentsToMajor(ShareCents(totalCents, Len(userIDs), i))),
             userIDs, itemID, totalCents, i + 1)

\* the outer loop `for itemID, userIDs := range itemUserOrder`
RECURSIVE RangeItemUserOrder(_, _, _, _)
RangeItemUserOrder(amounts, items, assignments, order) ==
    IF order = <<>> THEN amounts
    ELSE LET itemID == Head(order)
             userIDs == ItemUserOrder(assignments, itemID)
         IN  RangeItemUserOrder(
                 IF Len(userIDs) = 0 THEN amounts
                 ELSE SplitAmongUsers(amounts, userIDs, itemID,
                                      RoundToCents(ItemPrice(items, itemID)), 0),
                 items, assignments, Tail(order))

\* the loop `userTotal[a.ReceiptUserID] += amountByUserItem[key]`
RECURSIVE AddUserTotals(_, _, _)
AddUserTotals(userTotal, assignments, amounts) ==
    IF assignments = <<>> THEN userTotal
    ELSE LET a == Head(assignments)
         IN  AddUserTotals(
                 MapSet(userTotal, a.receipt_user_id,
                        MapGet(userTotal, a.receipt_user_id)
                            + MapGet(amounts, SplitKey(a.receipt_user_id, a.receipt_item_id))),
                 Tail(assignments), amounts)

\* (a variant that charges the items nobody is assigned to to the first
\* assigned user)
ComputeBillSplitChargingUnassigned(items, assignments, order) ==
    LET amounts == RangeItemUserOrder(<<>>, items, assignments, order)
        free == {k \in 1..Len(items) : items[k].id \notin RangeKeys(assignments)}
        extra == [key \in {<<assignments[1].receipt_user_id, items[k].id>> : k \in free} |->
                     ItemPrice(items, key[2])]
        totals == AddUserTotals(<<>>, assignments, amounts)
    IN  IF assignments = <<>>
        THEN [AmountByUserItem |-> amounts, UserTotal |-> totals]
        ELSE [AmountByUserItem |-> extra @@ amounts,
              UserTotal |-> MapSet(totals, assignments[1].receipt_user_id,
                                   MapGet(totals, assignments[1].receipt_user_id)
                                       + SumSeq([k \in 1..Len(items) |->
                                                  IF k \in free THEN items[k].total_price
                                                  ELSE 0]))]

ComputeBillSplitRanging(items, assignments, order) ==
    LET amounts == RangeItemUserOrder(<<>>, items, assignments, order)
    IN  [AmountByUserItem |-> amounts,
         UserTotal |-> AddUserTotals(<<>>, assignments, amounts)]

\* a call of ComputeBillSplit on the request's items and assignments
ComputeBillSplitCall(order) ==
    /\ resp' = Response("ComputeBillSplit", 0, Nil,
                        [split |-> ComputeBillSplitRanging(req.items, req.assignments, order),
                         order |-> order])
    /\ UNCHANGED <<receipts, receipt_columns, receipt_items, receipt_users, receipt_user_items, tx, req, inflight>>

\* ToGetReceiptResponse: the GET /receipts/{id} body built from the rows read,
\* the split and the receipt's currency; every amount is a money.Amount
ToGetReceiptResponse(receiptID, users, items, assignments, split, currency) ==
    [receipt_id |-> receiptID,
     users |-> [k \in 1..Len(users) |->
                  [id |-> users[k].id, receipt_id |-> users[k].receipt_id,
                   name |-> users[k].name,
                   user_total |-> Some(NewAmount(MapGet(split.UserTotal, users[k].id),
                                                 currency))]],
     items |-> [k \in 1..Len(items) |->
                  [id |-> items[k].id, name |-> items[k].name,
                   quantity |-> items[k].quantity,
                   total_price |-> Ptr(Some(items[k].total_price), currency),
                   price_per_item |-> Ptr(Some(items[k].price_per_item), currency)]],
     assignments |-> [k \in 1..Len(assignments) |->
                  [id |-> assignments[k].id,
                   user_id |-> assignments[k].receipt_user_id,
                   item_id |-> assignments[k].receipt_item_id,
                   amount_owed |-> NewAmount(
                       MapGet(split.AmountByUserItem,
                              SplitKey(assignments[k].receipt_user_id,
                                       assignments[k].receipt_item_id)),
                       currency)]]]

\* a call of ToGetReceiptResponse on the split of the request's rows
ToGetReceiptResponseCall ==
    /\ resp' = Response("ToGetReceiptResponse", 200, Nil,
                        ToGetReceiptResponse(1, req.users, req.items, req.assignments,
                            ComputeBillSplit(req.items, req.assignments), req.currency))
    /\ UNCHANGED <<receipts, receipt_columns, receipt_items, receipt_users, receipt_user_items, tx, req, inflight>>

(***************************************************************************)
(* float64 arithmetic of the totals loop, bit by bit.  A non-negative      *)
(* float64 is its significand, a sequence of Float64Bits bits starting     *)
(* with 1, and the exponent e of its last bit: the number is the binary    *)
(* integer m times 2^e.  Zero has the empty significand.                   *)
(***************************************************************************)
Float64Bits == 53
Float64Zero == [m |-> <<>>, e |-> 0]

\* the binary digits of a natural number, none for 0
RECURSIVE IntBits(_)
IntBits(n) == IF n = 0 THEN <<>> ELSE IntBits(n \div 2) \o <<n % 2>>

Zeros(n) == [k \in 1..n |-> 0]

\* bits + 1: the zero furthest right becomes 1 and the ones after it 0
Increment(bits) ==
    LET zeroAt == {k \in 1..Len(bits) : bits[k] = 0}
    IN  IF zeroAt = {} THEN <<1>> \o Zeros(Len(bits))
        ELSE [k \in 1..Len(bits) |->
                IF k < Max(zeroAt) THEN bits[k]
                ELSE IF k = Max(zeroAt) THEN 1 ELSE 0]

\* a + b for two bit sequences of one length.  The carry into position k
\* comes from a position j to its right where both bits are 1, when every
\* position between them has a 1.
CarryInto(a, b, k) ==
    \E j \in (k + 1)..Len(a) :
        /\ a[j] = 1 /\ b[j] = 1
        /\ \A i \in (k + 1)..(j - 1) : a[i] + b[i] >= 1
AddBits(a, b) ==
    LET sum == [k \in 1..Len(a) |->
                   (a[k] + b[k] + (IF CarryInto(a, b, k) THEN 1 ELSE 0)) % 2]
    IN  IF CarryInto(a, b, 0) THEN <<1>> \o sum ELSE sum

\* IEEE 754 round to nearest, ties to even: `sig` are the leading bits of the
\* exact result (the first is 1, the last has exponent e), `sticky` tells
\* whether non-zero bits follow them
RoundNearestEven(sig, sticky, e) ==
    LET L == Len(sig)
        keep == SubSeq(sig, 1, Float64Bits)
        guard == IF L > Float64Bits THEN sig[Float64Bits + 1] ELSE 0
        rest == \E k \in (Float64Bits + 2)..L : sig[k] = 1
        up == guard = 1 /\ (sticky \/ rest \/ keep[Float64Bits] = 1)
        inc == IF up THEN Increment(keep) ELSE keep
        ekeep == e + (L - Float64Bits)
    IN  IF Len(inc) > Float64Bits
        THEN [m |-> SubSeq(inc, 1, Float64Bits), e |-> ekeep + 1]
        ELSE [m |-> inc, e |-> ekeep]

\* the long division r / d continued after the bits `sig` until there are
\* Float64Bits + 1 significant bits
RECURSIVE QuotientBits(_, _, _, _)
QuotientBits(sig, r, d, e) ==
    IF Len(sig) > Float64Bits THEN [sig |-> sig, r |-> r, e |-> e]
    ELSE LET bit == IF 2 * r >= d THEN 1 ELSE 0
         IN  QuotientBits(IF sig = <<>> /\ bit = 0 THEN <<>> ELSE Append(sig, bit),
                          2 * r - bit * d, d, e - 1)

\* float64(n) / d for naturals n and d: the float64 nearest to the quotient
Float64Div(n, d) ==
    IF n = 0 THEN Float64Zero
    ELSE LET q == QuotientBits(IntBits(n \div d), n % d, d, 0)
         IN  RoundNearestEven(q.sig, q.r # 0, q.e)

\* the float64 that carries the amount `milli` of the model
Float64Of(milli) == Float64Div(milli, 1000)

\* x + y on float64
Float64Add(x, y) ==
    IF x.m = <<>> THEN y
    ELSE IF y.m = <<>> THEN x
    ELSE LET emin == IF x.e < y.e THEN x.e ELSE y.e
             xs == x.m \o Zeros(x.e - emin)
             ys == y.m \o Zeros(y.e - emin)
             L == IF Len(xs) > Len(ys) THEN Len(xs) ELSE Len(ys)
         IN  RoundNearestEven(AddBits(Zeros(L - Len(xs)) \o xs,
                                      Zeros(L - Len(ys)) \o ys),
                              FALSE, emin)

\* userTotal[key] of a map of float64, 0 for a missing key
MapGetFloat64(m, key) == IF key \in DOMAIN m THEN m[key] ELSE Float64Zero

\* (a variant of the totals loop that adds the shares in minor units and
\* converts each total once)
AddUserTotalsInMinorUnits(userTotal, assignments, amounts) ==
    LET exact == AddUserTotals(<<>>, assignments, amounts)
    IN  [u \in DOMAIN exact |-> Float64Of(exact[u])]

\* the loop `userTotal[a.ReceiptUserID] += amountByUserItem[key]` on float64
RECURSIVE AddUserTotalsFloat64(_, _, _)
AddUserTotalsFloat64(userTotal, assignments, amounts) ==
    IF assignments = <<>> THEN userTotal
    ELSE LET a == Head(assignments)
         IN  AddUserTotalsFloat64(
                 MapSet(userTotal, a.receipt_user_id,
                        Float64Add(MapGetFloat64(userTotal, a.receipt_user_id),
                                   Float64Of(MapGet(amounts,
                                       SplitKey(a.receipt_user_id, a.receipt_item_id))))),
                 Tail(assignments), amounts)

\* a call of ComputeBillSplit whose UserTotal is given as float64
ComputeBillSplitFloat64Call(order) ==
    /\ LET amounts == RangeItemUserOrder(<<>>, req.items, req.assignments, order)
       IN  resp' = Response("ComputeBillSplitFloat64", 0, Nil,
                            [AmountByUserItem |-> amounts,
                             UserTotal |-> AddUserTotalsFloat64(<<>>, req.assignments,
                                                                amounts)])
    /\ UNCHANGED <<receipts, receipt_columns, receipt_items, receipt_users, receipt_user_items, tx, req, inflight>>

\* the GET /receipts/{id} body ToGetReceiptResponse builds from what the
\* receipt's queries return, for a receipt whose currency column is `currency`
GetReceiptResponse(receiptID, currency) ==
    /\ ReceiptExists(receiptID)
    /\ LET users == GetReceiptUsers(receiptID)
           items == GetReceiptItems(receiptID)
           assignments == GetReceiptAssignments(receiptID)
       IN  resp' = Response("GetReceiptResponse", 200, Nil,
                            ToGetReceiptResponse(receiptID, users, items, assignments,
                                ComputeBillSplit(items, assignments), currency))
    /\ UNCHANGED <<receipts, receipt_columns, receipt_items, receipt_users, receipt_user_items, tx, req, inflight>>

(***************************************************************************)
(* Inputs.                                                                 *)
(***************************************************************************)
ReceiptIds == 1..(MaxReceipts + 1)
UserIds == 1..(MaxUsers + 1)
ItemIds == 1..(MaxReceipts + 1)
UserNames == {"", "Ann", " Bo "}
CustomAmounts == {Nil, Some(2500)}

Pizza == [Name |-> "Pizza", Quantity |-> 1, TotalPrice |-> Some(10000), PricePerItem |-> Nil]
MainBodies == SeqsOf({Pizza}, 0, MaxBodyItems)

\* request items of the validation specification
BodyNames == {"", "Pizza"}
BodyQuantities == {0, 2}
BodyPrices == {Nil, Some(0 - 500), Some(0), Some(700)}
BodyItems == [Name : BodyNames, Quantity : BodyQuantities,
              TotalPrice : BodyPrices, PricePerItem : BodyPrices]
AddBodies == SeqsOf(BodyItems, 0, MaxBodyItems)

\* the receipt_items row of a saved one-item receipt
SavedItem(id, receiptID, item) ==
    [id |-> id, receipt_id |-> receiptID, name |-> ItemToSave(item).Name,
     quantity |-> ItemToSave(item).Quantity,
     total_price |-> ItemToSave(item).TotalPrice,
     price_per_item |-> ItemToSave(item).PricePerItem]

\* the receipt_users row of the k-th participant added to the store
JoinedUser(id, receiptID) ==
    [id |-> id, receipt_id |-> receiptID, name |-> "Ann", created_at |-> id]

\* item totals of the allocator specification, in milli: whole cents and
\* amounts 0.4 and 0.6 of a cent beside them, and 10.00
SplitPrices ==
    {c * 10 + d : c \in 0..MaxSplitCents, d \in {0, 4, 6}} \cup {10000}

\* answers of the extraction service and OCR texts
GeminiNames == {<<" ">>, <<" ", "P">>}
GeminiQuantities == {0 - 1, 0, 2}
GeminiPricesIn == {Nil, Some(0 - 500), Some(0), Some(700)}
GeminiCandidates == [Name : GeminiNames, Quantity : GeminiQuantities,
                     TotalPrice : GeminiPricesIn, PricePerItem : GeminiPricesIn]

QuantityDigits == {<<>>, <<"0">>, <<"2">>, <<"1", "0">>}
PriceTexts == [whole : {<<"0">>, <<"7">>, <<",">>, <<"1", ",", "0">>},
               frac : {<<>>, <<"5", "0">>}]
PriceMatches == [name : {<<"P">>}, quantity : QuantityDigits, price : PriceTexts]
EndPriceMatches == [name : {<<"P">>}, price : PriceTexts]
OCRLines ==
    {[price |-> Some(m), endPrice |-> Nil] : m \in PriceMatches}
        \cup {[price |-> Nil, endPrice |-> Some(m)] : m \in EndPriceMatches}
        \cup {[price |-> Nil, endPrice |-> Nil]}

ParserInputs ==
    {[kind |-> "llm", err |-> FALSE, items |-> s] :
        s \in SeqsOf(GeminiCandidates, 0, MaxParsed)}
        \cup {[kind |-> "llm", err |-> TRUE, items |-> <<>>]}
        \cup {[kind |-> "text", lines |-> s] : s \in SeqsOf(OCRLines, 0, MaxParsed)}

\* uploads: a line the regular expressions read as "P 2 7.50", one read as
\* "P 0 7.50", one they do not match; an answer of the extraction service
\* with one item, with none, and its failure
LineOf(quantity) ==
    [price |-> Some([name |-> <<"P">>, quantity |-> quantity,
                     price |-> [whole |-> <<"7">>, frac |-> <<"5", "0">>]]),
     endPrice |-> Nil]
NoMatchLine == [price |-> Nil, endPrice |-> Nil]
OCRResults ==
    {[err |-> TRUE, text |-> <<>>], [err |-> FALSE, text |-> <<>>],
     [err |-> FALSE, text |-> <<NoMatchLine>>],
     [err |-> FALSE, text |-> <<LineOf(<<"2">>)>>],
     [err |-> FALSE, text |-> <<LineOf(<<"0">>)>>]}
GeminiResults ==
    {[err |-> TRUE, items |-> <<>>, tax |-> Nil, tip |-> Nil],
     [err |-> FALSE, items |-> <<>>, tax |-> Nil, tip |-> Nil],
     [err |-> FALSE,
      items |-> <<[Name |-> <<"P">>, Quantity |-> 2, TotalPrice |-> Some(750),
                   PricePerItem |-> Nil]>>,
      tax |-> Some(100), tip |-> Nil]}
Uploads == [valid : BOOLEAN, upload : BOOLEAN, ocr : OCRResults, llm : GeminiResults]

\* values and currencies of the money specification: whole amounts up to
\* MaxMoneyUnits with fractions on and off the cent, the values of the
\* package's tests, and their negatives; codes known, unknown, blank, absent
MoneyFractions == {0, 4, 6, 490, 500, 510, 950, 951}
MoneyValues ==
    LET positive == {u * 1000 + f : u \in 0..MaxMoneyUnits, f \in MoneyFractions}
                        \cup {12950, 12951, 18000, 21950, 22000}
    IN  positive \cup {0 - v : v \in positive}
Currencies ==
    {Nil, Some(<<>>), Some(<<" ">>), Some(USD), Some(<<"u", "s", "d">>), Some(JPY),
     Some(KWD), Some(<<"Z", "Z", "Z">>), Some(<<" ", "U", "S", "D">>)}

(***************************************************************************)
(* Spec: receipts are created (SaveReceipt step by step) and read.         *)
(***************************************************************************)
Init ==
    /\ receipts = {}
    /\ receipt_columns = [r \in receipts |-> NoColumns]
    /\ receipt_items = {}
    /\ receipt_users = {}
    /\ receipt_user_items = {}
    /\ tx = TxIdle
    /\ req = <<>>
    /\ resp = NoResponse
    /\ inflight = <<>>

Next ==
    \/ \E body \in MainBodies : AddReceiptHandler(body)
    \/ SaveReceiptInsertItem
    \/ SaveReceiptCommit
    \/ SaveReceiptReturn
    \/ \E receiptID \in ReceiptIds : GetReceiptHandler(receiptID)

Spec == Init /\ [][Next]_vars

(***************************************************************************)
(* SpecAdd: POST /receipts on request bodies drawn from AddBodies.         *)
(***************************************************************************)
InitAdd ==
    /\ receipts = {}
    /\ receipt_columns = [r \in receipts |-> NoColumns]
    /\ receipt_items = {}
    /\ receipt_users = {}
    /\ receipt_user_items = {}
    /\ tx = TxIdle
    /\ req \in AddBodies
    /\ resp = NoResponse
    /\ inflight = <<>>

NextAdd ==
    \/ AddReceiptHandler(req)
    \/ SaveReceiptInsertItem
    \/ SaveReceiptCommit
    \/ SaveReceiptReturn

SpecAdd == InitAdd /\ [][NextAdd]_vars

(***************************************************************************)
(* SpecDerive: POST /receipts on one-item bodies with a quantity of        *)
(* 1..MaxQuantity and either price, both or none supplied.                 *)
(***************************************************************************)
DerivePrices == {Nil, Some(210), Some(700), Some(3500), Some(8990)}
DeriveItems == [Name : {"Pizza"}, Quantity : 1..MaxQuantity,
                TotalPrice : DerivePrices, PricePerItem : DerivePrices]

InitDerive ==
    /\ receipts = {}
    /\ receipt_columns = [r \in receipts |-> NoColumns]
    /\ receipt_items = {}
    /\ receipt_users = {}
    /\ receipt_user_items = {}
    /\ tx = TxIdle
    /\ req \in {<<item>> : item \in DeriveItems}
    /\ resp = NoResponse
    /\ inflight = <<>>

SpecDerive == InitDerive /\ [][NextAdd]_vars

(***************************************************************************)
(* SpecAssign: MaxReceipts one-item receipts are saved; participants join, *)
(* are assigned items over HTTP, and the receipts are read.                *)
(***************************************************************************)
InitAssign ==
    /\ receipts = 1..MaxReceipts
    /\ receipt_columns = [r \in receipts |-> NoColumns]
    /\ receipt_items = {SavedItem(r, r, Pizza) : r \in 1..MaxReceipts}
    /\ receipt_users = {}
    /\ receipt_user_items = {}
    /\ tx = TxIdle
    /\ req = <<>>
    /\ resp = NoResponse
    /\ inflight = <<>>

NextAssign ==
    \/ \E receiptID \in ReceiptIds, name \in UserNames :
          AddUserToReceiptHandler(receiptID, name)
    \/ \E receiptID \in ReceiptIds, userID \in UserIds,
          itemIDs \in SeqsOf(ItemIds, 0, MaxBatch) :
          AssignItemsToUserHandler(receiptID, userID, itemIDs)
    \/ \E receiptID \in ReceiptIds : GetReceiptHandler(receiptID)

SpecAssign == InitAssign /\ [][NextAssign]_vars

(***************************************************************************)
(* SpecJoin: participants join MaxReceipts saved receipts (or receipts     *)
(* that do not exist), under names that may repeat, and read the receipts. *)
(***************************************************************************)
NextJoin ==
    \/ \E receiptID \in ReceiptIds, name \in UserNames :
          AddUserToReceiptHandler(receiptID, name)
    \/ \E receiptID \in ReceiptIds : GetReceiptHandler(receiptID)

SpecJoin == InitAssign /\ [][NextJoin]_vars

(***************************************************************************)
(* SpecUpsert: persistence.AssignItemToUser called with custom amounts on  *)
(* MaxReceipts one-item receipts with one participant each.                *)
(***************************************************************************)
InitUpsert ==
    /\ receipts = 1..MaxReceipts
    /\ receipt_columns = [r \in receipts |-> NoColumns]
    /\ receipt_items = {SavedItem(r, r, Pizza) : r \in 1..MaxReceipts}
    /\ receipt_users = {JoinedUser(r, r) : r \in 1..MaxReceipts}
    /\ receipt_user_items = {}
    /\ tx = TxIdle
    /\ req = <<>>
    /\ resp = NoResponse
    /\ inflight = <<>>

NextUpsert ==
    \E userID \in 1..(MaxReceipts + 1), itemID \in ItemIds, amountPaid \in CustomAmounts :
        AssignItemToUserCall(userID, itemID, amountPaid)

SpecUpsert == InitUpsert /\ [][NextUpsert]_vars

(***************************************************************************)
(* SpecSplit: one receipt with one item of a total drawn from SplitPrices  *)
(* and MaxSplitUsers participants, who are assigned the item in any order. *)
(***************************************************************************)
InitSplit ==
    /\ receipts = {1}
    /\ receipt_columns = [r \in receipts |-> NoColumns]
    /\ receipt_items \in
          {{SavedItem(1, 1, [Pizza EXCEPT !.TotalPrice = Some(p)])} : p \in SplitPrices}
    /\ receipt_users = {JoinedUser(u, 1) : u \in 1..MaxSplitUsers}
    /\ receipt_user_items = {}
    /\ tx = TxIdle
    /\ req = <<>>
    /\ resp = NoResponse
    /\ inflight = <<>>

NextSplit ==
    \/ \E userID \in 1..MaxSplitUsers : AssignItemsToUserHandler(1, userID, <<1>>)
    \/ GetReceiptHandler(1)

SpecSplit == InitSplit /\ [][NextSplit]_vars

(***************************************************************************)
(* SpecNormalize: the two item parsers on answers and texts of at most     *)
(* MaxParsed items or lines.                                               *)
(***************************************************************************)
InitNormalize ==
    /\ receipts = {}
    /\ receipt_columns = [r \in receipts |-> NoColumns]
    /\ receipt_items = {}
    /\ receipt_users = {}
    /\ receipt_user_items = {}
    /\ tx = TxIdle
    /\ req \in ParserInputs
    /\ resp = NoResponse
    /\ inflight = <<>>

NextNormalize ==
    \/ req.kind = "llm" /\ ParseReceiptItemsWithGemini(req)
    \/ req.kind = "text" /\ ExtractReceiptItemsFromTextCall(req.lines)

SpecNormalize == InitNormalize /\ [][NextNormalize]_vars

(***************************************************************************)
(* SpecImage: POST /receipts/image on one upload drawn from Uploads.       *)
(***************************************************************************)
InitImage ==
    /\ receipts = {}
    /\ receipt_columns = [r \in receipts |-> NoColumns]
    /\ receipt_items = {}
    /\ receipt_users = {}
    /\ receipt_user_items = {}
    /\ tx = TxIdle
    /\ req \in Uploads
    /\ resp = NoResponse
    /\ inflight = <<>>

NextImage ==
    \/ resp = NoResponse /\ tx.pc = "idle" /\ UploadReceiptImageHandler(req)
    \/ SaveReceiptInsertItem
    \/ SaveReceiptCommit
    \/ SaveReceiptReturn

SpecImage == InitImage /\ [][NextImage]_vars

(***************************************************************************)
(* SpecPatch: MaxReceipts receipts, each with an item, a participant and   *)
(* an assignment, whose tax and tip are set or not; PATCH requests arrive. *)
(***************************************************************************)
TaxTipValues == {Nil, Some(1500), Some(5000)}

InitPatch ==
    /\ receipts = 1..MaxReceipts
    /\ receipt_columns \in
          [receipts -> [image_url : {Nil}, ocr_text : {Nil},
                        tax : {Nil, Some(800)}, tip : {Nil, Some(300)}]]
    /\ receipt_items = {SavedItem(r, r, Pizza) : r \in 1..MaxReceipts}
    /\ receipt_users = {JoinedUser(r, r) : r \in 1..MaxReceipts}
    /\ receipt_user_items = {NewAssignmentRow({}, r, r, r, Nil) : r \in 1..MaxReceipts}
    /\ tx = TxIdle
    /\ req = <<>>
    /\ resp = NoResponse
    /\ inflight = <<>>

NextPatch ==
    \E receiptID \in ReceiptIds, tax \in TaxTipValues, tip \in TaxTipValues :
        ServePatchReceipt(receiptID, tax, tip)

SpecPatch == InitPatch /\ [][NextPatch]_vars

(***************************************************************************)
(* SpecRace: MaxCallers concurrent calls of persistence.AssignItemToUser   *)
(* on one receipt with one item and two participants.                      *)
(***************************************************************************)
RaceAmounts == {Nil, Some(2500), Some(4000)}

InitRace ==
    /\ receipts = {1}
    /\ receipt_columns = [r \in receipts |-> NoColumns]
    /\ receipt_items = {SavedItem(1, 1, Pizza)}
    /\ receipt_users = {JoinedUser(1, 1), JoinedUser(2, 1)}
    /\ receipt_user_items = {}
    /\ tx = TxIdle
    /\ req = <<>>
    /\ resp = NoResponse
    /\ inflight = [p \in Callers |-> IdleCall]

NextRace ==
    \E p \in Callers :
        \/ \E userID \in 1..3, amountPaid \in RaceAmounts :
              AssignItemToUserVerify(p, userID, 1, amountPaid)
        \/ AssignItemToUserUpsert(p)
        \/ AssignItemToUserReread(p)

SpecRace == InitRace /\ [][NextRace]_vars

(***************************************************************************)
(* SpecSnapshot: one receipt with one item is read query by query while    *)
(* participants join it and are assigned the item.                         *)
(***************************************************************************)
InitSnapshot ==
    /\ receipts = {1}
    /\ receipt_columns = [r \in receipts |-> NoColumns]
    /\ receipt_items = {SavedItem(1, 1, Pizza)}
    /\ receipt_users = {}
    /\ receipt_user_items = {}
    /\ tx = TxIdle
    /\ req = <<>>
    /\ resp = NoResponse
    /\ inflight = [get |-> NoReader]

NextSnapshot ==
    \/ \E receiptID \in {1, 2} : GetReceiptExists(receiptID)
    \/ GetReceiptReadUsers
    \/ GetReceiptReadItems
    \/ GetReceiptReadAssignments
    \/ AddUserToReceiptHandler(1, "Ann")
    \/ \E userID \in 1..MaxUsers : AssignItemsToUserHandler(1, userID, <<1>>)

SpecSnapshot == InitSnapshot /\ [][NextSnapshot]_vars

(***************************************************************************)
(* SpecOrder: ComputeBillSplit on two items and at most MaxAssignments     *)
(* assignments of distinct pairs, with every iteration order of the map.   *)
(***************************************************************************)
SplitUsers == 1..2
SplitItems ==
    <<SavedItem(1, 1, [Pizza EXCEPT !.TotalPrice = Some(50)]), SavedItem(2, 1, Pizza)>>
SplitAssignments ==
    {s \in SeqsOf([receipt_user_id : SplitUsers, receipt_item_id : 1..3], 0, MaxAssignments) :
        \A j, k \in 1..Len(s) : j # k => s[j] # s[k]}

InitOrder ==
    /\ receipts = {}
    /\ receipt_columns = [r \in receipts |-> NoColumns]
    /\ receipt_items = {}
    /\ receipt_users = {}
    /\ receipt_user_items = {}
    /\ tx = TxIdle
    /\ req \in [items : {SplitItems}, assignments : SplitAssignments]
    /\ resp = NoResponse
    /\ inflight = <<>>

NextOrder ==
    \E order \in RangeOrders(RangeKeys(req.assignments)) : ComputeBillSplitCall(order)

SpecOrder == InitOrder /\ [][NextOrder]_vars

(***************************************************************************)
(* SpecCustom: persistence.AssignItemToUser called with and without custom *)
(* amounts by the participants of one receipt with one item of 10.00, and  *)
(* the receipt read.                                                       *)
(***************************************************************************)
CustomUsers == 1..(MaxUsers + 1)

InitCustom ==
    /\ receipts = {1}
    /\ receipt_columns = [r \in receipts |-> NoColumns]
    /\ receipt_items = {SavedItem(1, 1, Pizza)}
    /\ receipt_users = {JoinedUser(u, 1) : u \in CustomUsers}
    /\ receipt_user_items = {}
    /\ tx = TxIdle
    /\ req = <<>>
    /\ resp = NoResponse
    /\ inflight = <<>>

NextCustom ==
    \/ \E userID \in CustomUsers, amountPaid \in CustomAmounts :
          AssignItemToUserCall(userID, 1, amountPaid)
    \/ GetReceiptHandler(1)

SpecCustom == InitCustom /\ [][NextCustom]_vars

(***************************************************************************)
(* SpecMoney: package money called on one value and one currency drawn     *)
(* from MoneyValues and Currencies.                                        *)
(***************************************************************************)
InitMoney ==
    /\ receipts = {}
    /\ receipt_columns = [r \in receipts |-> NoColumns]
    /\ receipt_items = {}
    /\ receipt_users = {}
    /\ receipt_user_items = {}
    /\ tx = TxIdle
    /\ req \in [value : MoneyValues, currency : Currencies]
    /\ resp = NoResponse
    /\ inflight = <<>>

NextMoney ==
    \/ RoundCall
    \/ RoundAgain
    \/ DecimalPlacesCall
    \/ MarshalJSONCall
    \/ NewAmountCall

SpecMoney == InitMoney /\ [][NextMoney]_vars

(***************************************************************************)
(* SpecPresent: ToGetReceiptResponse on a receipt in one of                *)
(* PresentCurrencies with one item of a total drawn from SplitPrices,      *)
(* assigned to the first n of MaxSplitUsers participants.                  *)
(***************************************************************************)
PresentCurrencies == {Nil, Some(USD), Some(JPY), Some(KWD), Some(<<"Z", "Z", "Z">>)}

\* the receipt_user_items row of the k-th assignment, of participant k to item 1
AssignedRow(k) ==
    [id |-> k, receipt_user_id |-> k, receipt_item_id |-> 1, amount_owed |-> Nil,
     created_at |-> k]

InitPresent ==
    /\ receipts = {}
    /\ receipt_columns = [r \in receipts |-> NoColumns]
    /\ receipt_items = {}
    /\ receipt_users = {}
    /\ receipt_user_items = {}
    /\ tx = TxIdle
    /\ req \in [users : {[u \in 1..MaxSplitUsers |-> JoinedUser(u, 1)]},
                items : {<<SavedItem(1, 1, [Pizza EXCEPT !.TotalPrice = Some(p)])>> :
                            p \in SplitPrices},
                assignments : {[k \in 1..n |-> AssignedRow(k)] : n \in 0..MaxSplitUsers},
                currency : PresentCurrencies]
    /\ resp = NoResponse
    /\ inflight = <<>>

NextPresent == ToGetReceiptResponseCall

SpecPresent == InitPresent /\ [][NextPresent]_vars

(***************************************************************************)
(* SpecTotal: ComputeBillSplit on two items of totals drawn from           *)
(* TotalPrices and at most MaxAssignments assignments of distinct pairs    *)
(* over two participants.                                                  *)
(***************************************************************************)
TotalPrices == {10, 50, 100, 700}
TotalAssignments ==
    {s \in SeqsOf([receipt_user_id : SplitUsers, receipt_item_id : 1..2], 0, MaxAssignments) :
        \A j, k \in 1..Len(s) : j # k => s[j] # s[k]}

InitTotal ==
    /\ receipts = {}
    /\ receipt_columns = [r \in receipts |-> NoColumns]
    /\ receipt_items = {}
    /\ receipt_users = {}
    /\ receipt_user_items = {}
    /\ tx = TxIdle
    /\ req \in [items : {<<SavedItem(1, 1, [Pizza EXCEPT !.TotalPrice = Some(p)]),
                           SavedItem(2, 1, [Pizza EXCEPT !.TotalPrice = Some(q)])>> :
                             p, q \in TotalPrices},
                assignments : TotalAssignments]
    /\ resp = NoResponse
    /\ inflight = <<>>

NextTotal ==
    \E order \in RangeOrders(RangeKeys(req.assignments)) : ComputeBillSplitFloat64Call(order)

SpecTotal == InitTotal /\ [][NextTotal]_vars

(***************************************************************************)
(* SpecReport: receipts of two items (10.00 and 0.05) are created,         *)
(* participants join them and are assigned their items one at a time, and  *)
(* the receipts' responses are built.                                      *)
(***************************************************************************)
ReportBody ==
    <<Pizza, [Name |-> "Mint", Quantity |-> 1, TotalPrice |-> Some(50), PricePerItem |-> Nil]>>
ReportItemIds == 1..(2 * MaxReceipts + 1)
ReportCurrencies == {Nil, Some(USD)}

NextReport ==
    \/ AddReceiptHandler(ReportBody)
    \/ SaveReceiptInsertItem
    \/ SaveReceiptCommit
    \/ SaveReceiptReturn
    \/ \E receiptID \in ReceiptIds : AddUserToReceiptHandler(receiptID, "Ann")
    \/ \E receiptID \in ReceiptIds, userID \in UserIds, itemID \in ReportItemIds :
          AssignItemsToUserHandler(receiptID, userID, <<itemID>>)
    \/ \E receiptID \in ReceiptIds, currency \in ReportCurrencies :
          GetReceiptResponse(receiptID, currency)

SpecReport == Init /\ [][NextReport]_vars

(***************************************************************************)
(* Properties of the allocator (SpecSplit).                                *)
(***************************************************************************)
IsReceiptView == resp.op = "GetReceipt" /\ resp.status = 200

\* the entries of a receipt view's assignments that are of one item
ViewEntriesOf(view, itemID) ==
    {k \in 1..Len(view.assignments) : view.assignments[k].item_id = itemID}

\* the amounts of a receipt view allocated for one item, summed (milli)
ViewAllocated(view, itemID) ==
    SumSeq([k \in 1..Len(view.assignments) |->
               IF view.assignments[k].item_id = itemID
               THEN view.assignments[k].amount ELSE 0])

\* C1: split conservation.  In every receipt view, for every item whose total
\* is T >= 0 minor units and that has n >= 1 assigned participants, the
\* amounts allocated for the item sum to exactly T minor units.
SplitConservation ==
    IsReceiptView =>
        \A k \in 1..Len(resp.body.items) :
            LET item == resp.body.items[k]
                T == RoundToCents(item.total_price)
            IN  (T >= 0 /\ ViewEntriesOf(resp.body, item.id) # {})
                    => ViewAllocated(resp.body, item.id) = T * 10

\* C1 witness: a view of an item shared by several participants whose total
\* does not divide evenly among them, with the allocations summing to it.
SplitConservationWitness ==
    /\ IsReceiptView
    /\ \E k \in 1..Len(resp.body.items) :
          LET item == resp.body.items[k]
              T == RoundToCents(item.total_price)
              n == Cardinality(ViewEntriesOf(resp.body, item.id))
          IN  /\ n >= 2
              /\ T % n # 0
              /\ ViewAllocated(resp.body, item.id) = T * 10

\* the stored assignments of an item, and how many of them were created
\* before the assignment a
AssignmentsOfItem(itemID) == {b \in receipt_user_items : b.receipt_item_id = itemID}
CreatedBefore(a) ==
    Cardinality({b \in AssignmentsOfItem(a.receipt_item_id) : b.created_at < a.created_at})

\* the total of a stored item in minor units
StoredItemCents(itemID) ==
    RoundToCents((CHOOSE i \in receipt_items : i.id = itemID).total_price)

\* C2: remainder tie-break.  With base = floor(T/n) and remainder = T - base*n,
\* a receipt view shows base+1 minor units for the assignments of an item
\* that are among its first `remainder` in creation order, and base for the
\* others.
RemainderTieBreak ==
    IsReceiptView =>
        \A a \in receipt_user_items :
            UserReceiptID(a.receipt_user_id) = Some(resp.body.receipt_id) =>
                LET T == StoredItemCents(a.receipt_item_id)
                    n == Cardinality(AssignmentsOfItem(a.receipt_item_id))
                    base == T \div n
                    remainder == T - base * n
                    expected == IF CreatedBefore(a) < remainder THEN base + 1 ELSE base
                IN  \E k \in 1..Len(resp.body.assignments) :
                        /\ resp.body.assignments[k].id = a.id
                        /\ resp.body.assignments[k].user_id = a.receipt_user_id
                        /\ resp.body.assignments[k].item_id = a.receipt_item_id
                        /\ resp.body.assignments[k].amount = expected * 10

\* C2 witness: the item of 10.00 with three assignees, who were not assigned
\* in the order they joined, is shown as 3.34, 3.33, 3.33 in assignment order.
RemainderTieBreakWitness ==
    /\ IsReceiptView
    /\ Len(resp.body.items) = 1
    /\ resp.body.items[1].total_price = 10000
    /\ Len(resp.body.assignments) = 3
    /\ resp.body.assignments[1].user_id # 1
    /\ [k \in 1..3 |-> resp.body.assignments[k].amount] = <<3340, 3330, 3330>>

(***************************************************************************)
(* Properties of persistence.AssignItemToUser (SpecUpsert).                *)
(***************************************************************************)
IsAssignCall == resp.op = "AssignItemToUser"

\* the participant and the item both exist, in the same receipt
SameReceiptPair(userID, itemID) ==
    /\ UserReceiptID(userID) # Nil
    /\ ItemReceiptID(itemID) # Nil
    /\ UserReceiptID(userID) = ItemReceiptID(itemID)

\* the participant and the item both exist, in different receipts
CrossReceiptPair(userID, itemID) ==
    /\ UserReceiptID(userID) # Nil
    /\ ItemReceiptID(itemID) # Nil
    /\ UserReceiptID(userID) # ItemReceiptID(itemID)

OneRecordPerPair ==
    \A a, b \in receipt_user_items :
        (a.receipt_user_id = b.receipt_user_id /\ a.receipt_item_id = b.receipt_item_id)
            => a = b

LatestAmountStored ==
    (IsAssignCall /\ SameReceiptPair(resp.body.user, resp.body.item)) =>
        \E a \in receipt_user_items :
            /\ a.receipt_user_id = resp.body.user
            /\ a.receipt_item_id = resp.body.item
            /\ a.amount_owed = resp.body.amount

\* an assign leaves the records of every other pair as they are
OtherPairsKept ==
    \A a \in receipt_user_items :
        (resp'.op = "AssignItemToUser" /\
         ~(a.receipt_user_id = resp'.body.user /\ a.receipt_item_id = resp'.body.item))
            => a \in receipt_user_items'

\* C3: assignment uniqueness.  After any sequence of assigns the store holds
\* at most one record per (participant, item) pair; the record of the pair
\* just assigned carries the custom amount of that assign, and an assign
\* changes the record of no other pair.
AssignmentUniqueness ==
    /\ [](OneRecordPerPair /\ LatestAmountStored)
    /\ [][OtherPairsKept]_vars

\* C3 witness: a pair that already had a record has been assigned again (the
\* statement took its ON CONFLICT branch, so the row of the fresh id is
\* absent) with a custom amount, and its one record carries that amount.
AssignmentUniquenessWitness ==
    /\ IsAssignCall
    /\ resp.err = ErrGetData(PgxNoRows)
    /\ resp.body.amount = Some(2500)
    /\ Cardinality({a \in receipt_user_items :
            a.receipt_user_id = resp.body.user /\ a.receipt_item_id = resp.body.item}) = 1
    /\ \E a \in receipt_user_items :
            /\ a.receipt_user_id = resp.body.user
            /\ a.receipt_item_id = resp.body.item
            /\ a.amount_owed = Some(2500)

StoredPairsSameReceipt ==
    \A a \in receipt_user_items : SameReceiptPair(a.receipt_user_id, a.receipt_item_id)

CrossReceiptAssignRejected ==
    (resp'.op = "AssignItemToUser" /\ CrossReceiptPair(resp'.body.user, resp'.body.item))
        => /\ resp'.err # Nil
           /\ resp'.body.assignment = Nil
           /\ receipt_user_items' = receipt_user_items

\* C5: cross-receipt rejection.  An assign of a participant of one receipt to
\* an item of another returns an error and creates or changes no record, and
\* in every reachable state each stored assignment links a participant and an
\* item of the same receipt.
CrossReceiptRejection ==
    /\ []StoredPairsSameReceipt
    /\ [][CrossReceiptAssignRejected]_vars

\* C5 witness: a cross-receipt assign has been answered with the same-receipt
\* error while the store already held an assignment.
CrossReceiptRejectionWitness ==
    /\ IsAssignCall
    /\ CrossReceiptPair(resp.body.user, resp.body.item)
    /\ resp.err = ErrSameReceipt
    /\ receipt_user_items # {}

(***************************************************************************)
(* Properties of POST /receipts/{id}/users/{userId}/items (SpecAssign).    *)
(***************************************************************************)
\* C4: re-assignment succeeds.  A request assigning one item to a participant
\* who already has an assignment for it is answered 201 with the record of
\* that pair.
ReassignmentSucceeds ==
    [][(/\ resp'.op = "AssignItems"
        /\ Len(resp'.body.item_ids) = 1
        /\ \E a \in receipt_user_items :
              /\ a.receipt_user_id = resp'.body.user
              /\ a.receipt_item_id = resp'.body.item_ids[1])
        => /\ resp'.status = 201
           /\ Len(resp'.body.items) = 1
           /\ resp'.body.items[1].ReceiptUserID = resp'.body.user
           /\ resp'.body.items[1].ReceiptItemID = resp'.body.item_ids[1]]_vars

\* C6: a request assigning one item is answered 404 when the user does not
\* exist, when the item does not exist, and when the two belong to different
\* receipts.
AssignAnswersNotFound ==
    (/\ resp.op = "AssignItems"
     /\ Len(resp.body.item_ids) = 1
     /\ ~SameReceiptPair(resp.body.user, resp.body.item_ids[1]))
        => resp.status = 404

\* C7: no partial writes.  A request with several item_ids of which one does
\* not exist or belongs to another receipt than the user (or whose user does
\* not exist) is refused and creates or changes no assignment.
NoPartialAssignment ==
    [][(/\ resp'.op = "AssignItems"
        /\ Len(resp'.body.item_ids) > 1
        /\ \E k \in 1..Len(resp'.body.item_ids) :
              ~SameReceiptPair(resp'.body.user, resp'.body.item_ids[k]))
        => /\ resp'.status # 201
           /\ receipt_user_items' = receipt_user_items]_vars

(***************************************************************************)
(* Properties of SaveReceipt (Spec).                                       *)
(***************************************************************************)
StoredItemsOf(receiptID) == {i \in receipt_items : i.receipt_id = receiptID}

\* C8: receipt creation is all-or-nothing.  While SaveReceipt is inside its
\* transaction, and after it failed at an item insert or at the commit,
\* neither its receipt nor any of its items is stored, and a read of the
\* receipt made in that time is answered 404; after the commit the receipt is
\* stored with all the items of the request.  No item is ever stored without
\* its receipt.
AllOrNothing ==
    /\ tx.pc \in {"items", "rolledback"} =>
          /\ tx.rid \notin receipts
          /\ StoredItemsOf(tx.rid) = {}
          /\ TxRows(tx) \cap receipt_items = {}
          /\ (resp.op = "GetReceipt" /\ resp.body.receipt_id = tx.rid)
                => resp.status = 404
    /\ tx.pc = "committed" =>
          /\ tx.rid \in receipts
          /\ Len(tx.done) = Len(tx.items)
          /\ StoredItemsOf(tx.rid) = TxRows(tx)
          /\ Cardinality(StoredItemsOf(tx.rid)) = Len(tx.items)
    /\ \A i \in receipt_items : i.receipt_id \in receipts

\* C8 witness: SaveReceipt failed after it had inserted a first item of two,
\* and a later read of its receipt was answered 404.
AllOrNothingWitness ==
    /\ tx.pc = "rolledback"
    /\ Len(tx.items) = 2
    /\ Len(tx.done) = 1
    /\ resp.op = "GetReceipt"
    /\ resp.body.receipt_id = tx.rid
    /\ resp.status = 404
    /\ StoredItemsOf(tx.rid) = {}

(***************************************************************************)
(* Properties of POST /receipts (SpecAdd).                                 *)
(***************************************************************************)
\* an item without a name, without a positive quantity, or without any price
FailsItemChecks(item) ==
    \/ item.Name = ""
    \/ item.Quantity <= 0
    \/ (item.TotalPrice = Nil /\ item.PricePerItem = Nil)

AcceptableItem(item) ==
    /\ item.Name # ""
    /\ item.Quantity > 0
    /\ item.TotalPrice # Nil \/ item.PricePerItem # Nil
    /\ item.TotalPrice # Nil => item.TotalPrice[1] > 0
    /\ item.PricePerItem # Nil => item.PricePerItem[1] > 0

\* C10: item validation accepts only acceptable items, so a body answered
\* 201 holds no item with a zero or negative supplied price.
OnlyPositivePricesAccepted ==
    (resp.op = "AddReceipt" /\ resp.status = 201) =>
        \A k \in 1..Len(req) : AcceptableItem(req[k])

(***************************************************************************)
(* Properties of the price derivation (SpecDerive).                        *)
(***************************************************************************)
OnlyTotalSupplied(item) == item.TotalPrice # Nil /\ item.PricePerItem = Nil
OnlyPerItemSupplied(item) == item.TotalPrice = Nil /\ item.PricePerItem # Nil

Abs(x) == IF x >= 0 THEN x ELSE 0 - x

SuppliedStoredUnchanged(item, row) ==
    /\ OnlyTotalSupplied(item) => row.total_price = item.TotalPrice[1]
    /\ OnlyPerItemSupplied(item) => row.price_per_item = item.PricePerItem[1]

IsParserResult ==
    resp.op \in {"ParseReceiptItemsWithGemini", "ExtractReceiptItemsFromText"}

\* C12: every item either parser emits has a quantity of at least 1, a
\* total price above zero and a price per item above zero.
EmittedItemsValid ==
    IsParserResult =>
        \A k \in 1..Len(resp.body) :
            /\ resp.body[k].Quantity >= 1
            /\ resp.body[k].TotalPrice > 0
            /\ resp.body[k].PricePerItem > 0

(***************************************************************************)
(* Properties of POST /receipts/image (SpecImage).                         *)
(***************************************************************************)
IsUploadResponse == resp.op = "UploadReceiptImage"

\* the errors SaveReceipt returns when the database fails
SaveReceiptErrors == {ErrBegin, ErrInsertItem, ErrCommit, ErrGetReceipt}

\* the OCR text the service produced, as a nullable column
ProducedOCRText(up) ==
    IF up.ocr.err \/ up.ocr.text = <<>> THEN Nil ELSE Some(up.ocr.text)

\* C13: an upload whose OCR fails, or whose OCR succeeds and whose item
\* extraction fails, is answered 201 unless the database fails, and its
\* receipt is saved with no item and with the OCR text when OCR produced one.
IngestionDegradesToNoItems ==
    (req.valid /\ req.upload /\ (req.ocr.err \/ req.llm.err) /\ IsUploadResponse) =>
        /\ resp.status = 201 \/ (resp.status = 500 /\ resp.err \in SaveReceiptErrors)
        /\ resp.status = 201 =>
              /\ resp.body.receipt_id \in receipts
              /\ StoredItemsOf(resp.body.receipt_id) = {}
              /\ receipt_columns[resp.body.receipt_id].ocr_text = ProducedOCRText(req)

\* C14: when the upload to the bucket, the OCR or the item extraction fails,
\* the request is not aborted: a receipt is created and the answer is 201,
\* unless the database fails.
CollaboratorFailureTolerated ==
    (req.valid /\ (~req.upload \/ req.ocr.err \/ req.llm.err) /\ IsUploadResponse) =>
        /\ resp.status = 201 \/ (resp.status = 500 /\ resp.err \in SaveReceiptErrors)
        /\ resp.status = 201 => resp.body.receipt_id \in receipts

(***************************************************************************)
(* Properties of POST /receipts/{id}/users (SpecJoin).                     *)
(***************************************************************************)
\* what a request to add the participant name to the receipt receiptID does
AddParticipantEffect(receiptID, name) ==
    IF receiptID \notin receipts
    THEN /\ resp'.op = "AddUser"
         /\ resp'.status = 404
         /\ receipt_users' = receipt_users
    ELSE /\ resp'.op = "AddUser"
         /\ resp'.status = 201
         /\ \E u \in receipt_users' :
               /\ u.id \notin {v.id : v \in receipt_users}
               /\ receipt_users' = receipt_users \cup {u}
               /\ u.receipt_id = receiptID
               /\ u.name = name
               /\ resp'.body = [ID |-> u.id, ReceiptID |-> receiptID, Name |-> name]

\* C15: adding a participant to an absent receipt is answered 404 and stores
\* nothing; adding a non-empty name to an existing receipt stores exactly one
\* new participant with that name, whatever names the receipt already has.
AddParticipantCreatesOne ==
    [][\A receiptID \in ReceiptIds, name \in UserNames \ {""} :
          AddUserToReceiptHandler(receiptID, name) =>
              /\ AddParticipantEffect(receiptID, name)
              /\ UNCHANGED <<receipts, receipt_items, receipt_user_items>>]_vars

\* C15 witness: a receipt has two participants of the same name, the second
\* one just added.
AddParticipantCreatesOneWitness ==
    /\ resp.op = "AddUser"
    /\ resp.status = 201
    /\ \E u, v \in receipt_users :
          /\ u.id # v.id
          /\ u.receipt_id = v.receipt_id
          /\ u.name = v.name
          /\ v.id = resp.body.ID

(***************************************************************************)
(* Properties of PATCH /receipts/{id} (SpecPatch).                         *)
(***************************************************************************)
\* the columns of the receipts after tax and tip, where supplied, are set on
\* the receipt receiptID
WithTaxTip(columns, receiptID, tax, tip) ==
    [r \in DOMAIN columns |->
        IF r # receiptID THEN columns[r]
        ELSE [image_url |-> columns[r].image_url, ocr_text |-> columns[r].ocr_text,
              tax |-> IF tax # Nil THEN tax ELSE columns[r].tax,
              tip |-> IF tip # Nil THEN tip ELSE columns[r].tip]]

\* C16: a PATCH with neither tax nor tip is rejected and one for an absent
\* receipt is answered 404, both without any change; a PATCH of an existing
\* receipt with tax or tip is answered 200 and sets the supplied fields only,
\* leaving the other field, the items, participants and assignments alone.
PatchChangesOnlySupplied ==
    [][\A receiptID \in ReceiptIds, tax \in TaxTipValues, tip \in TaxTipValues :
          ServePatchReceipt(receiptID, tax, tip) =>
              /\ UNCHANGED <<receipts, receipt_items, receipt_users, receipt_user_items>>
              /\ IF tax = Nil /\ tip = Nil
                 THEN resp'.status >= 400 /\ UNCHANGED receipt_columns
                 ELSE IF receiptID \notin receipts
                 THEN resp'.status = 404 /\ UNCHANGED receipt_columns
                 ELSE /\ resp'.status = 200
                      /\ receipt_columns' =
                            WithTaxTip(receipt_columns, receiptID, tax, tip)]_vars

(***************************************************************************)
(* Properties of concurrent AssignItemToUser calls (SpecRace).             *)
(***************************************************************************)
\* the callers whose upsert of the pair has been executed
UpsertedPair(userID, itemID) ==
    {p \in Callers : inflight[p].order > 0 /\ inflight[p].user = userID
                       /\ inflight[p].item = itemID}

LastUpserted(userID, itemID) ==
    CHOOSE p \in UpsertedPair(userID, itemID) :
        \A q \in UpsertedPair(userID, itemID) : inflight[q].order <= inflight[p].order

\* C17: whatever the interleaving of the calls, a pair never has two
\* assignment rows, and once a call has upserted the pair its one row holds
\* the amount of the call whose upsert was executed last.
ConcurrentAssignLastWins ==
    \A userID \in 1..3, itemID \in ItemIds :
        LET rows == {r \in receipt_user_items : SamePair(r, userID, itemID)}
        IN  /\ Cardinality(rows) <= 1
            /\ UpsertedPair(userID, itemID) # {} =>
                  /\ Cardinality(rows) = 1
                  /\ \A r \in rows :
                        r.amount_owed = inflight[LastUpserted(userID, itemID)].amount

\* C17 witness: two calls for the same pair with different amounts have both
\* returned, and the call that verified first upserted last.
ConcurrentAssignLastWinsWitness ==
    \E p, q \in Callers :
        /\ inflight[p].pc = "returned"
        /\ inflight[q].pc = "returned"
        /\ inflight[p].user = inflight[q].user
        /\ inflight[p].item = inflight[q].item
        /\ inflight[p].amount # inflight[q].amount
        /\ 0 < inflight[p].id
        /\ inflight[p].id < inflight[q].id
        /\ inflight[p].order > inflight[q].order
        /\ inflight[q].order > 0

(***************************************************************************)
(* Properties of GET /receipts/{id} under concurrent writes (SpecSnapshot).*)
(***************************************************************************)
\* C18: every assignment of a receipt view refers to a participant and to
\* an item listed in the same view.
ViewIsOneSnapshot ==
    IsReceiptView =>
        \A k \in 1..Len(resp.body.assignments) :
            /\ \E u \in 1..Len(resp.body.users) :
                  resp.body.users[u].id = resp.body.assignments[k].user_id
            /\ \E i \in 1..Len(resp.body.items) :
                  resp.body.items[i].id = resp.body.assignments[k].item_id

(***************************************************************************)
(* Properties of ComputeBillSplit as a function (SpecOrder).               *)
(***************************************************************************)
IsSplitResult == resp.op = "ComputeBillSplit"

\* among the users of an item, in the order of their assignments, an earlier
\* one is never allocated less than a later one
EarlierGetsExtra(split, assignments) ==
    \A itemID \in RangeKeys(assignments) :
        LET userIDs == ItemUserOrder(assignments, itemID)
        IN  \A j, k \in 1..Len(userIDs) :
                j < k => split.AmountByUserItem[<<userIDs[j], itemID>>]
                            >= split.AmountByUserItem[<<userIDs[k], itemID>>]

\* C19: two runs of ComputeBillSplit on the same items and assignments give
\* the same amounts and the same totals whatever order the map of items is
\* ranged over in each (the result ComputeBillSplit above gives without an
\* order), the extra cents going to the earliest assigned users.
SplitIsDeterministic ==
    [][resp'.op = "ComputeBillSplit" =>
          /\ IsSplitResult => resp'.body.split = resp.body.split
          /\ resp'.body.split = ComputeBillSplit(req.items, req.assignments)
          /\ EarlierGetsExtra(resp'.body.split, req.assignments)]_vars

\* C19 witness: a run that ranged over item 2 before item 1, with a user
\* assigned to both and a cent of remainder on item 1.
SplitIsDeterministicWitness ==
    /\ IsSplitResult
    /\ resp.body.order = <<2, 1>>
    /\ MapGet(resp.body.split.AmountByUserItem, <<1, 1>>) = 30
    /\ MapGet(resp.body.split.AmountByUserItem, <<2, 1>>) = 20
    /\ <<1, 2>> \in DOMAIN resp.body.split.AmountByUserItem

\* the items no assignment refers to, and the users without an assignment
UnassignedItems(items, assignments) ==
    {items[k].id : k \in 1..Len(items)} \ RangeKeys(assignments)

UnassignedUsers(assignments) ==
    SplitUsers \ {assignments[k].receipt_user_id : k \in 1..Len(assignments)}

\* C20: an item nobody is assigned to has no entry among the amounts and adds
\* nothing to any total (each total is the sum of the amounts of the user's
\* own assignments); a participant without an assignment has a total of 0.
UnassignedItemExcluded ==
    IsSplitResult =>
        LET split == resp.body.split
        IN  /\ \A key \in DOMAIN split.AmountByUserItem :
                  key[2] \notin UnassignedItems(req.items, req.assignments)
            /\ \A u \in SplitUsers :
                  MapGet(split.UserTotal, u) =
                      SumSeq([k \in 1..Len(req.assignments) |->
                          IF req.assignments[k].receipt_user_id = u
                          THEN MapGet(split.AmountByUserItem,
                                      <<u, req.assignments[k].receipt_item_id>>)
                          ELSE 0])
            /\ \A u \in UnassignedUsers(req.assignments) : MapGet(split.UserTotal, u) = 0

\* C20 witness: item 2 is assigned to nobody and user 2 to nothing, while
\* user 1 has item 1 alone; the split has been computed.
UnassignedItemExcludedWitness ==
    /\ IsSplitResult
    /\ UnassignedItems(req.items, req.assignments) = {2}
    /\ UnassignedUsers(req.assignments) = {2}
    /\ MapGet(resp.body.split.UserTotal, 1) = 50
    /\ DOMAIN resp.body.split.AmountByUserItem = {<<1, 1>>}

(***************************************************************************)
(* Properties of custom amounts (SpecCustom).                              *)
(***************************************************************************)
\* the assignments with their custom amounts replaced by those of f
WithCustomAmounts(assignments, f) ==
    [k \in 1..Len(assignments) |-> [assignments[k] EXCEPT !.amount_owed = f[k]]]

\* C21: custom amounts do not influence the split.  ComputeBillSplit returns
\* the same per-(user,item) amounts and user totals for the receipt's
\* assignments and for the same assignments with any other custom amounts,
\* and the receipt view shows the equal split; an accepted assign call has
\* stored the custom amount it was given.
CustomAmountsIgnored ==
    LET items == GetReceiptItems(1)
        assignments == GetReceiptAssignments(1)
        cleared == WithCustomAmounts(assignments, [k \in 1..Len(assignments) |-> Nil])
    IN  /\ \A f \in [1..Len(assignments) -> CustomAmounts] :
              ComputeBillSplit(items, WithCustomAmounts(assignments, f))
                  = ComputeBillSplit(items, assignments)
        /\ (IsReceiptView /\ Len(assignments) > 0) =>
              \A k \in 1..Len(assignments) :
                  resp.body.assignments[k].amount
                      = CentsToMajor(ShareCents(RoundToCents(items[1].total_price),
                                                Len(assignments), k - 1))
        /\ (resp.op = "AssignItemToUser" /\ resp.err = Nil) =>
              \E r \in receipt_user_items :
                  /\ SamePair(r, resp.body.user, resp.body.item)
                  /\ r.amount_owed = resp.body.amount
                  /\ resp.body.assignment[1].AmountOwed = resp.body.amount

\* C21 witness: a view of the item shared by several participants, some with
\* and some without a stored custom amount, that shows the equal split.
CustomAmountsIgnoredWitness ==
    /\ IsReceiptView
    /\ \E a, b \in receipt_user_items :
          a.amount_owed = Some(2500) /\ b.amount_owed = Nil
    /\ Len(resp.body.assignments) = 3
    /\ [k \in 1..3 |-> resp.body.assignments[k].amount] = <<3340, 3330, 3330>>

(***************************************************************************)
(* Properties of package money (SpecMoney).                                *)
(***************************************************************************)
\* the minor-unit precision the currency rules give a currency: 0 for the
\* yen, 3 for the Kuwaiti dinar, 2 for the dollar and for an absent, blank or
\* unknown code (codes compared without regard to case)
RulePlaces(currency) ==
    IF currency = Nil THEN 2
    ELSE IF ToUpper(currency[1]) = JPY THEN 0
    ELSE IF ToUpper(currency[1]) = KWD THEN 3
    ELSE 2

\* a value that has no digits beyond the currency's precision
AtPrecision(value, currency) == (value * Pow10(RulePlaces(currency))) % 1000 = 0

\* C22: rounding idempotence.  Round(Round(x, c), c) = Round(x, c) for every
\* value and currency, and a value already at the currency's precision is
\* returned unchanged by Round and by NewAmount.
RoundingIdempotence ==
    /\ resp.op = "RoundAgain" => resp.body.value = resp.body.once
    /\ (resp.op = "Round" /\ AtPrecision(req.value, req.currency))
          => resp.body.value = req.value
    /\ (resp.op = "NewAmount" /\ AtPrecision(req.value, req.currency))
          => resp.body.amount.Value = req.value

\* a formatted number read back: its fractional digits, and its value in milli
PointAt(bytes) == {k \in 1..Len(bytes) : bytes[k] = "."}
FractionDigits(bytes) ==
    IF PointAt(bytes) = {} THEN <<>>
    ELSE SubSeq(bytes, Max(PointAt(bytes)) + 1, Len(bytes))
WholeDigits(bytes) ==
    LET unsigned == IF bytes # <<>> /\ bytes[1] = "-" THEN Tail(bytes) ELSE bytes
    IN  SubSeq(unsigned, 1, Len(unsigned) - Len(FractionDigits(bytes))
                               - Cardinality(PointAt(bytes)))
DecimalDigits == {DigitChars[k] : k \in 1..10}
IsDecimalText(bytes) ==
    /\ Cardinality(PointAt(bytes)) <= 1
    /\ WholeDigits(bytes) # <<>>
    /\ \A k \in 1..Len(WholeDigits(bytes)) : WholeDigits(bytes)[k] \in DecimalDigits
    /\ \A k \in 1..Len(FractionDigits(bytes)) : FractionDigits(bytes)[k] \in DecimalDigits
    /\ PointAt(bytes) # {} => FractionDigits(bytes) # <<>>
DecimalTextValue(bytes) ==
    LET magnitude == Atoi(WholeDigits(bytes)) * 1000
                       + Atoi(FractionDigits(bytes)) * Pow10(3 - Len(FractionDigits(bytes)))
    IN  IF bytes[1] = "-" THEN 0 - magnitude ELSE magnitude

\* C23: amount presentation.  An Amount serialises without error to a decimal
\* text of exactly as many fractional digits as the currency rules give its
\* currency (2 for an absent, blank or unknown code, 0 for a currency without
\* minor unit, 3 for a three-decimal currency), which is the amount's value to
\* within half a unit of the last digit; DecimalPlaces answers that number of
\* digits, and Round answers a value, for every code.
AmountPresentation ==
    /\ resp.op \in {"MarshalJSON", "NewAmount"} =>
          LET places == RulePlaces(resp.body.amount.Currency)
              bytes == resp.body.bytes
          IN  /\ resp.err = Nil
              /\ IsDecimalText(bytes)
              /\ Len(FractionDigits(bytes)) = places
              /\ 2 * Pow10(places) * Abs(DecimalTextValue(bytes) - resp.body.amount.Value)
                    <= 1000
    /\ resp.op = "DecimalPlaces" => resp.body.places = RulePlaces(req.currency)
    /\ resp.op = "Round" => resp.err = Nil /\ resp.body.value \in Int

\* C23 witness: the amount 22.0 in dollars serialised as 22.00.
AmountPresentationWitness ==
    /\ resp.op = "MarshalJSON"
    /\ resp.body.amount = [Value |-> 22000, Currency |-> Some(USD)]
    /\ resp.body.bytes = <<"2", "2", ".", "0", "0">>

\* C24: floating-point noise correction.  Round is a true decimal rounding to
\* the currency's precision: what it returns has no digits beyond that
\* precision and is a nearest such value to its argument (12.95 for a stored
\* 12.95 carrying noise below the cent, in dollars), an integer for a
\* currency of 0 minor-unit places.
NoiseCorrection ==
    resp.op = "Round" =>
        LET places == RulePlaces(req.currency)
        IN  /\ AtPrecision(resp.body.value, req.currency)
            /\ 2 * Pow10(places) * Abs(resp.body.value - req.value) <= 1000
            /\ places = 0 => resp.body.value % 1000 = 0

(***************************************************************************)
(* Properties of the presented receipt (SpecPresent).                      *)
(***************************************************************************)
\* what a client reads from a serialised Amount, in milli
Presented(amount) == DecimalTextValue(MarshalJSON(amount).bytes)

\* C25: currency-aware minor units.  For a receipt in any currency, the
\* amount_owed values presented for the assignments of one item sum exactly
\* to the item's presented total_price.
PresentedSplitConserved ==
    resp.op = "ToGetReceiptResponse" =>
        \A k \in 1..Len(resp.body.items) :
            LET item == resp.body.items[k]
                owed == [j \in 1..Len(resp.body.assignments) |->
                           IF resp.body.assignments[j].item_id = item.id
                           THEN Presented(resp.body.assignments[j].amount_owed)
                           ELSE 0]
            IN  (\E j \in 1..Len(resp.body.assignments) :
                     resp.body.assignments[j].item_id = item.id)
                    => SumSeq(owed) = Presented(item.total_price[1])

(***************************************************************************)
(* Properties of the participants' totals (SpecTotal).                     *)
(***************************************************************************)
\* the shares of participant p, one per assignment record, in minor units
SharesOf(p, assignments, amounts) ==
    [k \in 1..Len(assignments) |->
        IF assignments[k].receipt_user_id = p
        THEN RoundToCents(MapGet(amounts, SplitKey(p, assignments[k].receipt_item_id)))
        ELSE 0]

\* C26: per-participant total.  UserTotal has a key for exactly the
\* participants with an assignment, and UserTotal[p] is the float64 of the
\* sum, taken in integer minor units, of p's shares, one per assignment.
UserTotalIsMinorUnitSum ==
    resp.op = "ComputeBillSplitFloat64" =>
        /\ DOMAIN resp.body.UserTotal
              = {req.assignments[k].receipt_user_id : k \in 1..Len(req.assignments)}
        /\ \A p \in DOMAIN resp.body.UserTotal :
              resp.body.UserTotal[p]
                  = Float64Div(SumSeq(SharesOf(p, req.assignments,
                                               resp.body.AmountByUserItem)), 100)

(***************************************************************************)
(* Properties of the reported totals (SpecReport).                         *)
(***************************************************************************)
\* the stored items of a receipt that have at least one assignee
AssignedItemsOf(receiptID) ==
    {i \in receipt_items :
        i.receipt_id = receiptID /\ \E a \in receipt_user_items : a.receipt_item_id = i.id}

\* C27: whole-receipt conservation.  In every response built for a receipt
\* after receipts were created, participants added and items assigned, the
\* user totals reported sum, in minor units, to the total prices of exactly
\* those items of the receipt that have at least one assignee.
ReceiptTotalConserved ==
    (resp.op = "GetReceiptResponse" /\ resp.status = 200) =>
        LET assigned == OrderById(AssignedItemsOf(resp.body.receipt_id))
        IN  SumSeq([k \in 1..Len(resp.body.users) |->
                       RoundToCents(Presented(resp.body.users[k].user_total[1]))])
              = SumSeq([k \in 1..Len(assigned) |-> RoundToCents(assigned[k].total_price)])

(***************************************************************************)
(* Properties of repeated assignment (SpecCustom).                         *)
(***************************************************************************)
\* the receipt's assignments as GetReceiptAssignments returns them from the
\* table `rows`
AssignmentsFrom(rows) ==
    OrderByCreatedAt({a \in rows :
        \E u \in receipt_users : u.id = a.receipt_user_id /\ u.receipt_id = 1})

\* the split order of the receipt: the (participant, item) pairs of its
\* assignments in that order
SplitOrderFrom(rows) ==
    LET assignments == AssignmentsFrom(rows)
    IN  [k \in 1..Len(assignments) |->
            <<assignments[k].receipt_user_id, assignments[k].receipt_item_id>>]
SplitOrder == SplitOrderFrom(receipt_user_items)

\* what ComputeBillSplit returns for the receipt
StoredSplitFrom(rows) == ComputeBillSplit(GetReceiptItems(1), AssignmentsFrom(rows))
StoredSplit == StoredSplitFrom(receipt_user_items)

\* C28: re-assignment keeps split order.  A call of assign for a pair that
\* already has a record leaves one record for the pair, with the amount of
\* the call and the creation time it had, so the split order of the item
\* and the amounts of the split, extra minor units included, are the same
\* after the call as before it.
ReassignKeepsSplitOrder ==
    [][(resp'.op = "AssignItemToUser"
            /\ \E r \in receipt_user_items : SamePair(r, resp'.body.user, resp'.body.item))
         => /\ SplitOrderFrom(receipt_user_items') = SplitOrderFrom(receipt_user_items)
            /\ StoredSplitFrom(receipt_user_items') = StoredSplitFrom(receipt_user_items)
            /\ \A r \in receipt_user_items : \E q \in receipt_user_items' :
                  /\ q.id = r.id
                  /\ q.created_at = r.created_at
                  /\ SamePair(q, r.receipt_user_id, r.receipt_item_id)
                  /\ q.amount_owed = IF SamePair(r, resp'.body.user, resp'.body.item)
                                     THEN resp'.body.amount ELSE r.amount_owed
            /\ Cardinality(receipt_user_items') = Cardinality(receipt_user_items)]_vars

\* C28 witness: three participants share the item of 10.00, and the last
\* call re-assigned, with another amount, a participant who is not the last
\* in the split order; the first in the order still gets the extra minor unit.
ReassignKeepsSplitOrderWitness ==
    /\ resp.op = "AssignItemToUser"
    /\ resp.body.amount = Some(2500)
    /\ Len(SplitOrder) = 3
    /\ SplitOrder[3] # <<resp.body.user, resp.body.item>>
    /\ \E r \in receipt_user_items :
          /\ SamePair(r, resp.body.user, resp.body.item)
          /\ r.id # NewULID({q.id : q \in receipt_user_items}) - 1
          /\ r.amount_owed = Some(2500)
    /\ resp.body.assignment = Nil
    /\ StoredSplit.AmountByUserItem[SplitOrder[1]] = 3340

(***************************************************************************)
(* Properties of SaveReceipt's errors (Spec).                              *)
(***************************************************************************)
\* a step on which a call of SaveReceipt returns an error, and the receipt
\* id that call generated
SaveReceiptFails ==
    /\ resp'.op = "AddReceipt"
    /\ resp'.status = 500
    /\ \/ tx.pc \in {"idle", "rolledback"} /\ tx'.pc = "rolledback"
       \/ tx.pc = "items" /\ tx'.pc = "rolledback"
       \/ tx.pc = "committed" /\ tx'.pc = "idle"
FailedReceiptID == IF tx.pc \in {"items", "committed"} THEN tx.rid ELSE tx'.rid

\* C29: error means not persisted.  Whenever SaveReceipt returns an error,
\* the store holds no receipt row and no item row of that call; in
\* particular no error is returned once the transaction has committed.
ErrorMeansNotPersisted ==
    [][SaveReceiptFails =>
          /\ tx.pc # "committed"
          /\ FailedReceiptID \notin receipts'
          /\ \A i \in receipt_items' : i.receipt_id # FailedReceiptID]_vars


(***************************************************************************)
(* Properties of the path of the assign request (SpecAssign).              *)
(***************************************************************************)
\* C30: the path receipt is honoured on assign.  A request
\* POST /receipts/{id}/users/{userId}/items creates or updates assignment
\* rows only when userId is a participant of the receipt {id} of its path.
PathReceiptHonoured ==
    [][\A receiptID \in ReceiptIds, userID \in UserIds,
          itemIDs \in SeqsOf(ItemIds, 0, MaxBatch) :
          (/\ AssignItemsToUserHandler(receiptID, userID, itemIDs)
           /\ receipt_user_items' # receipt_user_items)
          => UserReceiptID(userID) = Some(receiptID)]_vars

====
